---- MODULE Spec2Model ----
(***************************************************************************)
(* Model of playwright-userscript-manager: the host process (main.js), the *)
(* page-side GM API polyfill (polyfills/gm-api-polyfill.js) and the        *)
(* userscript catalog (userscript-runner.js).                              *)
(*                                                                         *)
(* Three specifications share the variables:                               *)
(*   SpecXhr    the GM_xmlhttpRequest bridge: page-side request table and  *)
(*              callback handler, host-side bridge function with its       *)
(*              timer, fetch and sendCallback;                             *)
(*   SpecStore  the storage bridge (gmStorage, saveGmStorage and the file);*)
(*   SpecMain   the run of main.js from launch to the finally block.       *)
(***************************************************************************)
EXTENDS Integers, Sequences, FiniteSets, TLC

\* Number of GM_xmlhttpRequest calls a page issues.
MaxReq == 2

TerminalEvents == {"onload", "onerror", "onabort", "ontimeout"}

\* The details objects a caller passes: url (is details.url a non-empty string),
\* timeout (is details.timeout truthy), cbs (the callbacks details carries),
\* responseType and overrideMimeType ("undefined" when details has none),
\* onerrorThrows (does the onerror callback of the caller raise an exception),
\* headers (name -> value), user and password (strings as sequences of
\* characters; <<>> stands for a missing and for an empty value, which the
\* bridge does not tell apart).
Details(urlOk, timeout, cbs, responseType, overrideMimeType) ==
    [urlOk |-> urlOk, timeout |-> timeout, cbs |-> cbs,
     responseType |-> responseType, overrideMimeType |-> overrideMimeType,
     onerrorThrows |-> FALSE, headers |-> <<>>, user |-> <<>>, password |-> <<>>]

DetailsChoices ==
    { Details(TRUE,  FALSE, TerminalEvents, "undefined", "undefined"),
      Details(TRUE,  TRUE,  TerminalEvents, "undefined", "undefined"),
      Details(TRUE,  TRUE,  {"onload"},     "undefined", "undefined"),
      Details(FALSE, FALSE, TerminalEvents, "undefined", "undefined"),
      Details(FALSE, FALSE, {"onload"},     "undefined", "undefined"),
      [Details(FALSE, FALSE, TerminalEvents, "undefined", "undefined")
          EXCEPT !.onerrorThrows = TRUE] }

\* The content-type header of the responses to the calls of DetailsChoices.
ContentTypes == {"text/html"}

\* Calls that differ in responseType and overrideMimeType, and the
\* content-type headers of their responses ("null": the header is missing;
\* "application/JSON" does not contain "json").
ResponseTypes == {"undefined", "", "json", "text", "arraybuffer", "blob", "document"}

ResponseDetails ==
    { Details(TRUE, FALSE, TerminalEvents, responseType, overrideMimeType) :
        responseType \in ResponseTypes,
        overrideMimeType \in {"undefined", "text/plain"} }

ResponseContentTypes == {"null", "application/ld+json", "application/JSON"}

\* Calls that differ in headers, user and password.
AuthDetails ==
    { [Details(TRUE, FALSE, TerminalEvents, "undefined", "undefined")
          EXCEPT !.headers = headers, !.user = user, !.password = password] :
        headers \in {<<>>, [k \in {"X-A"} |-> "1"], [k \in {"Authorization"} |-> "old"]},
        user \in {<<>>, <<"u">>},
        password \in {<<>>, <<"p">>, <<"p", "w">>} }

\* Number of storage bridge calls a page issues.
MaxStoreCalls == 3

\* Keys the page passes (GM_setValue / GM_getValue / GM_deleteValue accept any
\* non-empty string): two ordinary keys and two names Object.prototype defines.
Keys == {"a", "b", "__proto__", "hasOwnProperty"}

\* The (key, value) pairs the page passes to GM_setValue (JSON primitives).
SetInputs == {<<"a", "v1">>, <<"a", "v2">>, <<"b", "v1">>,
              <<"__proto__", "v1">>, <<"hasOwnProperty", "v1">>}

\* The defaultValue the page passes to GM_getValue.
DefaultValue == "default"

\* The storage file: absent (readFile fails with ENOENT), a JSON object, or
\* text that is no JSON (JSON.parse throws a SyntaxError).
NoFile == [state |-> "ENOENT", data |-> <<>>]
CorruptFile == [state |-> "corrupt", data |-> <<>>]
JsonFile(data) == [state |-> "json", data |-> data]

VARIABLES
    \* ---- page side (gm-api-polyfill.js) ----
    requestIdCounter,   \* let requestIdCounter = 0
    requestMap,         \* const requestMap = new Map(): id -> call (its details)
    xhrCalls,           \* the calls of GM_xmlhttpRequest so far, in order
    invoked,            \* per call: the callbacks of its details invoked, in order
    delivered,          \* per call: the events the handler accepted for it
    ignored,            \* per sending invocation: events the handler dropped (unknown id)
    abortCalls,         \* per call: how its abort handle was used
    \* ---- host side (main.js, GM_xmlhttpRequest_bridge) ----
    bridge,             \* per call: the bridge invocation (timer, fetch, position)
    sent,               \* per call: events its invocation handed to page.evaluate
    dropped,            \* per call: events sendCallback dropped (page closed)
    channel,            \* page.evaluate calls in flight, host -> page, in order
    pageClosed,         \* page.isClosed()
    \* ---- host side (main.js, storage) ----
    gmStorage,          \* let gmStorage = {}: the own properties of the object
    file,               \* the content of the storage file (storageFilePath)
    storeCalls,         \* the storage bridge calls, in the order the host ran them
    saves,              \* the saveGmStorage calls, in order (snapshot, state)
    \* ---- host side (main.js, the run) ----
    pc,                 \* the position of the main async function
    config,             \* argv: browserType and whether extensions were given
    browser,            \* let browser = null
    context,            \* let context = null
    page,               \* let page = null
    \* ---- host side (main.js, userscript injection) ----
    userscriptsDir,     \* the userscript directory (argv.dir): its files
    targetUrl,          \* argv.url
    allUserscripts,     \* const allUserscripts = await loadUserscripts(...)
    scriptsToInject,    \* const scriptsToInject: phase -> the scripts, in order
    initPos,            \* document-start scripts the addInitScript loop has passed
    initScripts,        \* page-initialization code registered (addInitScript)
    docLoads,           \* number of documents the page has started to load
    docState,           \* lifecycle of the current document
    handlers,           \* runs of the domcontentloaded / load listeners in progress
    evalLog             \* deliveries of scripts to the page, in request order

xhrVars == <<requestIdCounter, requestMap, xhrCalls, invoked, delivered, ignored,
             abortCalls, bridge, sent, dropped, channel>>

storeVars == <<gmStorage, file, storeCalls, saves>>

mainVars == <<pc, config, browser, context, page>>

injVars == <<userscriptsDir, targetUrl, allUserscripts, scriptsToInject, initPos,
             initScripts, docLoads, docState, handlers, evalLog>>

vars == <<xhrVars, pageClosed, storeVars, mainVars, injVars>>

CallNos == 1..MaxReq

NoBridge == [id |-> 0, pc |-> "none", timer |-> "none", fetch |-> "none",
             contentTypeHeader |-> "none", effectiveResponseType |-> "none",
             body |-> "none", requestHeaders |-> <<>>]

\* The page exists, is open and runs scripts: the bridge functions are exposed
\* and the page has been navigated (or is being navigated), until the context
\* is closed.
PageRuns ==
    /\ page = "created"
    /\ ~pageClosed
    /\ pc \in {"goto", "wait", "finalSave"}

\* ------------------------------------------------------------------------
\* Map helpers (JavaScript Map: set / delete / get)
\* ------------------------------------------------------------------------
MapSet(m, k, v) == [x \in (DOMAIN m) \cup {k} |-> IF x = k THEN v ELSE m[x]]

MapDelete(m, k) == [x \in (DOMAIN m) \ {k} |-> m[x]]

\* ------------------------------------------------------------------------
\* Page side
\* ------------------------------------------------------------------------

\* const requestId = ++requestIdCounter
NewRequestId_Reuse == Cardinality(DOMAIN requestMap) + 1

NewRequestId == requestIdCounter + 1

\* The table after the handler has run a callback for a terminal event:
\* if (['onload','onerror','onabort','ontimeout'].includes(eventName)) requestMap.delete(requestId)
HandlerCleanup_Keep(m, id, eventName) == m

HandlerCleanup_All(m, id, eventName) ==
    IF eventName \in TerminalEvents THEN <<>> ELSE m

HandlerCleanup(m, id, eventName) ==
    IF eventName \in TerminalEvents THEN MapDelete(m, id) ELSE m

\* The base64 alphabet.
B64Alphabet ==
    << "A", "B", "C", "D", "E", "F", "G", "H", "I", "J", "K", "L", "M", "N", "O", "P",
       "Q", "R", "S", "T", "U", "V", "W", "X", "Y", "Z", "a", "b", "c", "d", "e", "f",
       "g", "h", "i", "j", "k", "l", "m", "n", "o", "p", "q", "r", "s", "t", "u", "v",
       "w", "x", "y", "z", "0", "1", "2", "3", "4", "5", "6", "7", "8", "9", "+", "/" >>

\* The byte Buffer.from(str) holds for a character (of the inputs).
CharCode(ch) ==
    CASE ch = ":" -> 58
      [] ch = "p" -> 112
      [] ch = "u" -> 117
      [] ch = "w" -> 119

BufferFrom(str) == [i \in 1..Len(str) |-> CharCode(str[i])]

\* buffer.toString('base64'): three bytes give four characters, the last
\* group is padded with "=".
RECURSIVE ToBase64(_)
ToBase64(bytes) ==
    IF bytes = <<>> THEN <<>>
    ELSE LET b2 == IF Len(bytes) >= 2 THEN bytes[2] ELSE 0
             b3 == IF Len(bytes) >= 3 THEN bytes[3] ELSE 0
             n  == bytes[1] * 65536 + b2 * 256 + b3
         IN << B64Alphabet[(n \div 262144) + 1],
               B64Alphabet[((n \div 4096) % 64) + 1],
               IF Len(bytes) >= 2 THEN B64Alphabet[((n \div 64) % 64) + 1] ELSE "=",
               IF Len(bytes) >= 3 THEN B64Alphabet[(n % 64) + 1] ELSE "=" >>
            \o ToBase64(SubSeq(bytes, 4, Len(bytes)))

\* 'Basic ' + Buffer.from(user + ":" + password).toString('base64')
BasicAuth(user, password) ==
    <<"B", "a", "s", "i", "c", " ">> \o ToBase64(BufferFrom(user \o <<":">> \o password))

\* fetchOptions.headers: headers || {}, and
\* if (user && password) fetchOptions.headers['Authorization'] = 'Basic ' + ...
FetchHeaders_OnlyAuthorization(headers, user, password) ==
    IF user # <<>> /\ password # <<>>
    THEN [k \in {"Authorization"} |-> BasicAuth(user, password)]
    ELSE headers

FetchHeaders(headers, user, password) ==
    IF user # <<>> /\ password # <<>>
    THEN [k \in (DOMAIN headers) \cup {"Authorization"} |->
            IF k = "Authorization" THEN BasicAuth(user, password) ELSE headers[k]]
    ELSE headers

\* unsafeWindow.GM_xmlhttpRequest = (details) => { ... }
\* With a valid url the call ends in GM_xmlhttpRequest_bridge(requestId, details):
\* the host function starts (controller created, timer armed when details.timeout
\* is truthy, fetch(url, fetchOptions) issued).
GM_xmlhttpRequest(details) ==
    /\ PageRuns
    /\ Len(xhrCalls) < MaxReq
    /\ LET n  == Len(xhrCalls) + 1
           id == NewRequestId
       IN /\ requestIdCounter' = id
          /\ xhrCalls' = Append(xhrCalls,
                 [id |-> id, urlOk |-> details.urlOk, timeout |-> details.timeout,
                  cbs |-> details.cbs, responseType |-> details.responseType,
                  overrideMimeType |-> details.overrideMimeType,
                  onerrorThrows |-> details.onerrorThrows,
                  headers |-> details.headers, user |-> details.user,
                  password |-> details.password])
          /\ IF ~details.urlOk
             THEN \* entry set, onerror called at once (outside any try), entry
                  \* deleted unless onerror raised; bridge never called
                  /\ invoked' = [invoked EXCEPT ![n] =
                        IF "onerror" \in details.cbs THEN Append(@, "onerror") ELSE @]
                  /\ requestMap' =
                        IF "onerror" \in details.cbs /\ details.onerrorThrows
                        THEN MapSet(requestMap, id, n)
                        ELSE MapDelete(MapSet(requestMap, id, n), id)
                  /\ UNCHANGED bridge
             ELSE /\ requestMap' = MapSet(requestMap, id, n)
                  /\ bridge' = [bridge EXCEPT ![n] =
                        [id |-> id, pc |-> "fetch",
                         timer |-> IF details.timeout THEN "armed" ELSE "none",
                         fetch |-> "pending", contentTypeHeader |-> "none",
                         effectiveResponseType |-> "none", body |-> "none",
                         requestHeaders |->
                            FetchHeaders(details.headers, details.user,
                                         details.password)]]
                  /\ UNCHANGED invoked
    /\ UNCHANGED <<delivered, ignored, abortCalls, sent, dropped, channel, pageClosed>>
    /\ UNCHANGED <<storeVars, mainVars>>
    /\ UNCHANGED injVars

\* The abort handle returned by GM_xmlhttpRequest, used while the request is
\* pending: abort: () => { log; if (requestMap.get(requestId)) warn(...) }.
\* It calls no bridge function and touches no state of the page or the host;
\* abortCalls records that it was used. (Used after the entry is gone it only
\* logs.)
AbortHandle(n) ==
    /\ PageRuns
    /\ n \in 1..Len(xhrCalls)
    /\ xhrCalls[n].urlOk
    /\ xhrCalls[n].id \in DOMAIN requestMap
    /\ requestMap[xhrCalls[n].id] = n
    /\ abortCalls[n] = "no"
    /\ abortCalls' = [abortCalls EXCEPT ![n] = "pending"]
    /\ UNCHANGED <<requestIdCounter, requestMap, xhrCalls, invoked, delivered, ignored,
                   bridge, sent, dropped, channel, pageClosed>>
    /\ UNCHANGED <<storeVars, mainVars>>
    /\ UNCHANGED injVars

\* unsafeWindow.GM_xmlhttpRequest_callback_handler = (requestId, eventName, responseData)
\* run by the page for the oldest page.evaluate in flight.
GM_xmlhttpRequest_callback_handler ==
    /\ PageRuns
    /\ channel # <<>>
    /\ LET ev == Head(channel)
       IN /\ channel' = Tail(channel)
          /\ IF ev.id \notin DOMAIN requestMap
             THEN \* unknown id: warn and return
                  /\ ignored' = [ignored EXCEPT ![ev.from] = Append(@, ev.event)]
                  /\ UNCHANGED <<requestMap, invoked, delivered>>
             ELSE LET n == requestMap[ev.id]
                  IN /\ delivered' = [delivered EXCEPT ![n] =
                            Append(@, [event |-> ev.event, from |-> ev.from])]
                     /\ invoked' = [invoked EXCEPT ![n] =
                            IF ev.event \in xhrCalls[n].cbs
                            THEN Append(@, ev.event) ELSE @]
                     /\ requestMap' = HandlerCleanup(requestMap, ev.id, ev.event)
                     /\ UNCHANGED ignored
    /\ UNCHANGED <<requestIdCounter, xhrCalls, abortCalls, bridge, sent, dropped,
                   pageClosed>>
    /\ UNCHANGED <<storeVars, mainVars>>
    /\ UNCHANGED injVars

\* ------------------------------------------------------------------------
\* Host side: GM_xmlhttpRequest_bridge(requestId, details)
\* ------------------------------------------------------------------------

\* const sendCallback = async (eventName, responseData) => { if (!page.isClosed())
\* await page.evaluate(...) else warn }, for the events one host turn sends, in
\* order: the effect on channel, sent and dropped.
sendCallback_NoCheck(n, eventNames) ==
    /\ channel' = channel \o [i \in 1..Len(eventNames) |->
           [id |-> bridge[n].id, event |-> eventNames[i], from |-> n]]
    /\ sent' = [sent EXCEPT ![n] = @ \o eventNames]
    /\ UNCHANGED dropped

sendCallback(n, eventNames) ==
    IF ~pageClosed
    THEN /\ channel' = channel \o [i \in 1..Len(eventNames) |->
                [id |-> bridge[n].id, event |-> eventNames[i], from |-> n]]
         /\ sent' = [sent EXCEPT ![n] = @ \o eventNames]
         /\ UNCHANGED dropped
    ELSE /\ dropped' = [dropped EXCEPT ![n] = @ \o eventNames]
         /\ UNCHANGED <<channel, sent>>

\* clearTimeout(timeoutId): disarms an armed timer, no effect otherwise.
clearTimeout_Noop(t) == t

clearTimeout(t) == IF t = "armed" THEN "cleared" ELSE t

\* catch (error): const eventName = error.name === 'AbortError' ? 'onabort' : 'onerror'
CatchEventName_Swapped(isAbort) == IF isAbort THEN "onerror" ELSE "onabort"

CatchEventName(isAbort) == IF isAbort THEN "onabort" ELSE "onerror"

\* What the timer callback does to the pending fetch: controller.abort()
TimerAbortsFetch(f) == "aborted"

\* The events the host sends when the timer fires: the timer callback sends
\* 'ontimeout' (status 0); controller.abort() rejects the pending fetch with an
\* AbortError, and the catch block of the bridge, run as the next microtask,
\* sends CatchEventName(TRUE).
TimeoutEvents_AbortFirst == <<CatchEventName(TRUE), "ontimeout">>

TimeoutEvents == <<"ontimeout", CatchEventName(TRUE)>>

\* An armed timer fires. While the fetch is pending: setTimeout callback,
\* then the catch of the aborted fetch. (A timer left armed after the fetch
\* settled would abort nothing and send its 'ontimeout'.)
TimeoutFires(n) ==
    /\ bridge[n].timer = "armed"
    /\ IF bridge[n].pc = "fetch" /\ bridge[n].fetch = "pending"
       THEN /\ bridge' = [bridge EXCEPT ![n] =
                  [@ EXCEPT !.pc = "done", !.timer = "fired",
                            !.fetch = TimerAbortsFetch(@)]]
            /\ sendCallback(n, TimeoutEvents)
       ELSE /\ bridge' = [bridge EXCEPT ![n] = [@ EXCEPT !.timer = "fired"]]
            /\ sendCallback(n, <<"ontimeout">>)
    /\ UNCHANGED <<requestIdCounter, requestMap, xhrCalls, invoked, delivered, ignored,
                   abortCalls, pageClosed>>
    /\ UNCHANGED <<storeVars, mainVars>>
    /\ UNCHANGED injVars

\* The catch block of the bridge for an error that is no AbortError:
\* clearTimeout, then sendCallback('onerror', {status: 0, ...})
BridgeCatch(n, fetchState) ==
    /\ bridge' = [bridge EXCEPT ![n] =
          [@ EXCEPT !.pc = "done", !.timer = clearTimeout(@),
                    !.fetch = fetchState,
                    !.body = IF bridge[n].pc = "body" THEN "failed" ELSE @]]
    /\ sendCallback(n, <<CatchEventName(FALSE)>>)
    /\ UNCHANGED <<requestIdCounter, requestMap, xhrCalls, invoked, delivered, ignored,
                   abortCalls, pageClosed>>
    /\ UNCHANGED <<storeVars, mainVars>>

\* A value the operators ! and || treat as false (of the values of the inputs).
Falsy(v) == v \in {"undefined", "null", ""}

\* a || b
JsOr(a, b) == IF Falsy(a) THEN b ELSE a

\* effectiveContentType.includes('json'), for the content types of the inputs.
IncludesJson(contentType) == contentType \in {"application/json", "application/ld+json"}

\* const contentTypeHeader = response.headers.get('content-type') || '';
\* const effectiveContentType = overrideMimeType || contentTypeHeader;
EffectiveContentType(overrideMimeType, header) == JsOr(overrideMimeType, JsOr(header, ""))

\* let effectiveResponseType = ['json','text','arraybuffer','blob'].includes(responseType)
\*     ? responseType : 'text';
\* if (!responseType && effectiveContentType.includes('json')) effectiveResponseType = 'json';
EffectiveResponseType_AlwaysInfers(responseType, overrideMimeType, header) ==
    IF responseType \in {"json", "text", "arraybuffer", "blob"} THEN responseType
    ELSE IF IncludesJson(JsOr(header, "")) THEN "json" ELSE "text"

EffectiveResponseType(responseType, overrideMimeType, header) ==
    LET byType == IF responseType \in {"json", "text", "arraybuffer", "blob"}
                  THEN responseType ELSE "text"
    IN IF Falsy(responseType)
          /\ IncludesJson(EffectiveContentType(overrideMimeType, header))
       THEN "json" ELSE byType

\* await fetch(...) resolves with a response: clearTimeout, the effective
\* response type is worked out, body read starts.
FetchResolves(n, header) ==
    /\ bridge[n].pc = "fetch"
    /\ bridge[n].fetch = "pending"
    /\ bridge' = [bridge EXCEPT ![n] =
          [@ EXCEPT !.pc = "body", !.timer = clearTimeout(@),
                    !.fetch = "resolved", !.contentTypeHeader = header,
                    !.effectiveResponseType =
                        EffectiveResponseType(xhrCalls[n].responseType,
                                              xhrCalls[n].overrideMimeType, header)]]
    /\ UNCHANGED <<requestIdCounter, requestMap, xhrCalls, invoked, delivered, ignored,
                   abortCalls, sent, dropped, channel, pageClosed>>
    /\ UNCHANGED <<storeVars, mainVars>>
    /\ UNCHANGED injVars

\* await fetch(...) rejects with a network error (not an AbortError).
FetchRejects(n) ==
    /\ bridge[n].pc = "fetch"
    /\ bridge[n].fetch = "pending"
    /\ BridgeCatch(n, "rejected")
    /\ UNCHANGED injVars

\* The body read (response.json() / arrayBuffer() / text()) settles.
\* ok: gmResponse is built and await sendCallback('onload', gmResponse);
\* failure: throw new Error('Failed to read response body ...') -> catch.
BodyRead_FailureCompletes(n, ok) ==
    /\ bridge[n].pc = "body"
    /\ bridge' = [bridge EXCEPT ![n] =
          [@ EXCEPT !.pc = "done", !.body = IF ok THEN "read" ELSE "failed"]]
    /\ sendCallback(n, <<"onload">>)
    /\ UNCHANGED <<requestIdCounter, requestMap, xhrCalls, invoked, delivered,
                   ignored, abortCalls, pageClosed, storeVars, mainVars>>
    /\ UNCHANGED injVars

BodyRead(n, ok) ==
    /\ bridge[n].pc = "body"
    /\ IF ok
       THEN /\ bridge' = [bridge EXCEPT ![n] =
                  [@ EXCEPT !.pc = "done", !.body = "read"]]
            /\ sendCallback(n, <<"onload">>)
            /\ UNCHANGED <<requestIdCounter, requestMap, xhrCalls, invoked, delivered,
                           ignored, abortCalls, pageClosed, storeVars, mainVars>>
       ELSE BridgeCatch(n, "resolved")
    /\ UNCHANGED injVars

\* The events of the page.evaluate calls in flight that invocation n issued.
EventsFrom(ch, n) ==
    LET s == SelectSeq(ch, LAMBDA e : e.from = n)
    IN [i \in 1..Len(s) |-> s[i].event]

\* The page is closed: page.isClosed() turns true and every page.evaluate in
\* flight rejects ('Target page, context or browser has been closed'), which
\* sendCallback catches.
PageCloses ==
    /\ page = "created"
    /\ ~pageClosed
    /\ pc # "done"
    /\ pageClosed' = TRUE
    /\ channel' = <<>>
    /\ dropped' = [n \in CallNos |-> dropped[n] \o EventsFrom(channel, n)]
    /\ UNCHANGED <<requestIdCounter, requestMap, xhrCalls, invoked, delivered, ignored,
                   abortCalls, bridge, sent>>
    /\ UNCHANGED <<storeVars, mainVars>>
    /\ UNCHANGED injVars

\* ------------------------------------------------------------------------
\* Host side: persistent storage (gmStorage, saveGmStorage, storage bridge)
\* ------------------------------------------------------------------------

\* gmStorage[key] = value on a plain object, value a primitive: an own data
\* property is written, except for "__proto__", which is the accessor of
\* Object.prototype: its setter ignores a value that is no object and creates
\* no own property.
JsAssign(obj, key, value) ==
    IF key = "__proto__" THEN obj ELSE MapSet(obj, key, value)

\* gmStorage.hasOwnProperty(key): the method is looked up on the object, so an
\* own property named "hasOwnProperty" (a stored value, not callable) shadows
\* Object.prototype.hasOwnProperty and the call throws a TypeError.
JsHasOwnProperty(obj, key) ==
    IF "hasOwnProperty" \in DOMAIN obj THEN "TypeError"
    ELSE IF key \in DOMAIN obj THEN "true" ELSE "false"

\* JSON.stringify(gmStorage, null, 2): the own enumerable properties; a
\* property whose value is undefined is left out.
JsonStringify(obj) ==
    [k \in {j \in DOMAIN obj : obj[j] # "undefined"} |-> obj[k]]

\* JSON.parse(data) of the storage file at start; no file, or a file that does
\* not parse, gives {}.
LoadGmStorage(f) == IF f.state = "json" THEN f.data ELSE <<>>

\* What a mutating bridge call does after changing gmStorage:
\* await saveGmStorage() - the call is pending until the write has settled.
AfterMutation_NoAwait == "done"

AfterMutation == "saving"

\* saveGmStorage, first part: the snapshot is serialised and fs.writeFile is
\* issued for call c.
saveGmStorage(obj, c) ==
    Append(saves, [call |-> c, data |-> JsonStringify(obj), state |-> "writing",
                   overlapped |-> \E i \in 1..Len(saves) : saves[i].state = "writing"])

\* gmSetValueBridge(key, value): gmStorage[key] = value; await saveGmStorage()
gmSetValueBridge(key, value) ==
    /\ PageRuns
    /\ Len(storeCalls) < MaxStoreCalls
    /\ LET c == Len(storeCalls) + 1
           g == JsAssign(gmStorage, key, value)
       IN /\ gmStorage' = g
          /\ saves' = saveGmStorage(g, c)
          /\ storeCalls' = Append(storeCalls,
                [op |-> "set", key |-> key, value |-> value, state |-> AfterMutation,
                 result |-> "none", mutated |-> TRUE])
    /\ UNCHANGED <<file, xhrVars, pageClosed, mainVars>>
    /\ UNCHANGED injVars

\* gmGetValueBridge(key, defaultValue):
\* return gmStorage.hasOwnProperty(key) ? gmStorage[key] : defaultValue
gmGetValueBridge(key, defaultValue) ==
    /\ PageRuns
    /\ Len(storeCalls) < MaxStoreCalls
    /\ LET has == JsHasOwnProperty(gmStorage, key)
       IN storeCalls' = Append(storeCalls,
             [op |-> "get", key |-> key, value |-> defaultValue, state |-> "done",
              result |-> IF has = "TypeError" THEN "TypeError"
                         ELSE IF has = "true" THEN gmStorage[key] ELSE defaultValue,
              mutated |-> FALSE])
    /\ UNCHANGED <<gmStorage, file, saves, xhrVars, pageClosed, mainVars>>
    /\ UNCHANGED injVars

\* gmDeleteValueBridge without the hasOwnProperty test: deletes and saves
\* whatever the key.
gmDeleteValueBridge_Unguarded(key) ==
    /\ PageRuns
    /\ Len(storeCalls) < MaxStoreCalls
    /\ gmStorage' = MapDelete(gmStorage, key)
    /\ saves' = saveGmStorage(MapDelete(gmStorage, key), Len(storeCalls) + 1)
    /\ storeCalls' = Append(storeCalls,
          [op |-> "delete", key |-> key, value |-> "none",
           state |-> AfterMutation, result |-> "none", mutated |-> TRUE])
    /\ UNCHANGED <<file, xhrVars, pageClosed, mainVars>>
    /\ UNCHANGED injVars

\* gmDeleteValueBridge(key):
\* if (gmStorage.hasOwnProperty(key)) { delete gmStorage[key]; await saveGmStorage() }
gmDeleteValueBridge(key) ==
    /\ PageRuns
    /\ Len(storeCalls) < MaxStoreCalls
    /\ LET c   == Len(storeCalls) + 1
           has == JsHasOwnProperty(gmStorage, key)
       IN IF has = "TypeError"
          THEN /\ storeCalls' = Append(storeCalls,
                     [op |-> "delete", key |-> key, value |-> "none", state |-> "done",
                      result |-> "TypeError", mutated |-> FALSE])
               /\ UNCHANGED <<gmStorage, saves>>
          ELSE IF has = "true"
          THEN /\ gmStorage' = MapDelete(gmStorage, key)
               /\ saves' = saveGmStorage(MapDelete(gmStorage, key), c)
               /\ storeCalls' = Append(storeCalls,
                     [op |-> "delete", key |-> key, value |-> "none",
                      state |-> AfterMutation, result |-> "none", mutated |-> TRUE])
          ELSE /\ storeCalls' = Append(storeCalls,
                     [op |-> "delete", key |-> key, value |-> "none", state |-> "done",
                      result |-> "none", mutated |-> FALSE])
               /\ UNCHANGED <<gmStorage, saves>>
    /\ UNCHANGED <<file, xhrVars, pageClosed, mainVars>>
    /\ UNCHANGED injVars

\* gmListValuesBridge(): return Object.keys(gmStorage)
gmListValuesBridge ==
    /\ PageRuns
    /\ Len(storeCalls) < MaxStoreCalls
    /\ storeCalls' = Append(storeCalls,
          [op |-> "list", key |-> "none", value |-> "none", state |-> "done",
           result |-> DOMAIN gmStorage, mutated |-> FALSE])
    /\ UNCHANGED <<gmStorage, file, saves, xhrVars, pageClosed, mainVars>>
    /\ UNCHANGED injVars

\* The final save of main (call 0) has settled: main goes on to close the
\* context and the browser.
ResumeMain(i) ==
    IF saves[i].call = 0 /\ pc = "finalSave" THEN "closing" ELSE pc

\* The bridge call that awaits save i goes on and completes.
Resume(i) ==
    IF saves[i].call = 0 THEN storeCalls
    ELSE [storeCalls EXCEPT ![saves[i].call] = [@ EXCEPT !.state = "done"]]

\* saveGmStorage, second part: fs.writeFile of save i has written its data and
\* resolves. Writes to the same file that were issued while an earlier one was
\* still outstanding are not ordered by Node: each may reach the file in any
\* order.
WriteFileResolves(i) ==
    /\ i \in 1..Len(saves)
    /\ saves[i].state = "writing"
    /\ file' = JsonFile(saves[i].data)
    /\ saves' = [saves EXCEPT ![i] = [@ EXCEPT !.state = "written"]]
    /\ storeCalls' = Resume(i)
    /\ pc' = ResumeMain(i)
    /\ UNCHANGED <<gmStorage, xhrVars, pageClosed, config, browser, context, page>>
    /\ UNCHANGED injVars

\* saveGmStorage, second part: fs.writeFile of save i rejects (the file cannot
\* be opened for writing); the catch logs the error and saveGmStorage returns
\* normally.
WriteFileRejects(i) ==
    /\ i \in 1..Len(saves)
    /\ saves[i].state = "writing"
    /\ UNCHANGED file
    /\ saves' = [saves EXCEPT ![i] = [@ EXCEPT !.state = "failed"]]
    /\ storeCalls' = Resume(i)
    /\ pc' = ResumeMain(i)
    /\ UNCHANGED <<gmStorage, xhrVars, pageClosed, config, browser, context, page>>
    /\ UNCHANGED injVars

\* ------------------------------------------------------------------------
\* Host side: the run of main.js
\* ------------------------------------------------------------------------

\* The catch of main: the error is logged, control goes to the finally block.
Throw == pc' = "finally"

\* Browser launch. chromium, and firefox without extensions: browser =
\* await <type>.launch(...). firefox with extensions: context = await
\* firefox.launchPersistentContext(...), browser stays null.
Launch(ok) ==
    /\ pc = "launch"
    /\ IF ~ok
       THEN Throw /\ UNCHANGED <<browser, context>>
       ELSE IF config.browserType = "firefox" /\ config.extensions
       THEN pc' = "newPage" /\ context' = "open" /\ UNCHANGED browser
       ELSE pc' = "newContext" /\ browser' = "open" /\ UNCHANGED context
    /\ UNCHANGED <<xhrVars, pageClosed, storeVars, config, page>>
    /\ UNCHANGED injVars

\* context = await browser.newContext()
NewContext(ok) ==
    /\ pc = "newContext"
    /\ IF ok THEN pc' = "newPage" /\ context' = "open"
             ELSE Throw /\ UNCHANGED context
    /\ UNCHANGED <<xhrVars, pageClosed, storeVars, config, browser, page>>
    /\ UNCHANGED injVars

\* page = await context.newPage()
NewPage(ok) ==
    /\ pc = "newPage"
    /\ IF ok THEN pc' = "expose" /\ page' = "created"
             ELSE Throw /\ UNCHANGED page
    /\ UNCHANGED <<xhrVars, pageClosed, storeVars, config, browser, context>>
    /\ UNCHANGED injVars

\* await page.exposeFunction(...) for the bridge functions; an error is logged
\* and thrown again. On a closed page exposeFunction rejects.
ExposeBridge(ok) ==
    /\ pc = "expose"
    /\ ok => ~pageClosed
    /\ IF ok THEN pc' = "prepare" ELSE Throw
    /\ UNCHANGED <<xhrVars, pageClosed, storeVars, config, browser, context, page>>
    /\ UNCHANGED injVars

\* loadUserscripts, polyfill and document-start registration, listeners,
\* routing: errors of the page calls are caught and logged; an error
\* loadUserscripts throws again ends the try block.
Prepare(ok) ==
    /\ pc = "prepare"
    /\ IF ok THEN pc' = "goto" ELSE Throw
    /\ UNCHANGED <<xhrVars, pageClosed, storeVars, config, browser, context, page>>
    /\ UNCHANGED injVars

\* await page.goto(targetUrl, {waitUntil: 'load', timeout: 60000}); page.title();
\* the optional menu command. Navigation errors, and any call on a closed page,
\* throw.
Navigate(ok) ==
    /\ pc = "goto"
    /\ ok => ~pageClosed
    /\ IF ok THEN pc' = "wait" /\ docLoads' = 1 /\ docState' = "complete"
             ELSE Throw /\ UNCHANGED <<docLoads, docState>>
    /\ UNCHANGED <<xhrVars, pageClosed, storeVars, config, browser, context, page>>
    /\ UNCHANGED <<userscriptsDir, targetUrl, allUserscripts, scriptsToInject, initPos,
                   initScripts, handlers, evalLog>>

\* await page.waitForTimeout(browserTimeout): the observation window ends, or
\* the call rejects because the page was closed.
ObservationEnds ==
    /\ pc = "wait"
    /\ pc' = "finally"
    /\ UNCHANGED <<xhrVars, pageClosed, storeVars, config, browser, context, page>>
    /\ UNCHANGED injVars

\* finally: if (page && !page.isClosed()) await saveGmStorage();
\* else if (Object.keys(gmStorage).length > 0 && !browser) await saveGmStorage();
FinalSaveWanted ==
    \/ page # "null" /\ ~pageClosed
    \/ DOMAIN gmStorage # {} /\ browser = "null"

Finally ==
    /\ pc = "finally"
    /\ IF FinalSaveWanted
       THEN pc' = "finalSave" /\ saves' = saveGmStorage(gmStorage, 0)
       ELSE pc' = "closing" /\ UNCHANGED saves
    /\ UNCHANGED <<xhrVars, pageClosed, gmStorage, file, storeCalls, config, browser,
                   context, page>>
    /\ UNCHANGED injVars

\* finally, after the save: await context.close(); await browser.close();
\* errors are caught. Closing the context closes the page.
CloseAll ==
    /\ pc = "closing"
    /\ pc' = "done"
    /\ pageClosed' = (page # "null" \/ pageClosed)
    /\ context' = IF context = "open" THEN "closed" ELSE context
    /\ browser' = IF browser = "open" THEN "closed" ELSE browser
    /\ channel' = <<>>
    /\ dropped' = [n \in CallNos |-> dropped[n] \o EventsFrom(channel, n)]
    /\ UNCHANGED <<requestIdCounter, requestMap, xhrCalls, invoked, delivered, ignored,
                   abortCalls, bridge, sent, storeVars, config, page>>
    /\ UNCHANGED injVars

\* ------------------------------------------------------------------------
\* Host side: userscript catalog (userscript-runner.js)
\* Strings are sequences of characters, so that matching sees label
\* boundaries: "x.c" is a two-label host, "ex.c" merely ends with its text.
\* ------------------------------------------------------------------------

Http == <<"h", "t", "t", "p">>

Https == Http \o <<"s">>

SchemeSep == <<":", "/", "/">>

AllUrls == <<"<all_urls>">>

StartsWith(str, pre) ==
    Len(pre) <= Len(str) /\ SubSeq(str, 1, Len(pre)) = pre

Drop(str, n) == SubSeq(str, n + 1, Len(str))

Includes(str, ch) == \E i \in 1..Len(str) : str[i] = ch

\* Position of the first ch in str, Len(str) + 1 if there is none.
IndexOf(str, ch) ==
    IF Includes(str, ch)
    THEN CHOOSE i \in 1..Len(str) : str[i] = ch /\ \A j \in 1..(i - 1) : str[j] # ch
    ELSE Len(str) + 1

\* pattern.match(/^(?<scheme>\*|https?):\/\/(?<host>[^\/]+)(?<path>\/.*)?$/)
PatternGroups_AnyScheme(pattern) ==
    LET c    == IndexOf(pattern, ":")
        sch  == IF c > 1 /\ StartsWith(Drop(pattern, c - 1), SchemeSep)
                THEN SubSeq(pattern, 1, c - 1) ELSE <<>>
        rest == Drop(pattern, Len(sch) + Len(SchemeSep))
        cut  == IndexOf(rest, "/")
    IN IF sch = <<>> \/ cut = 1
       THEN [matched |-> FALSE]
       ELSE [matched |-> TRUE, scheme |-> sch, host |-> SubSeq(rest, 1, cut - 1),
             path |-> Drop(rest, cut - 1)]

PatternGroups(pattern) ==
    LET sch == IF StartsWith(pattern, <<"*">> \o SchemeSep) THEN <<"*">>
               ELSE IF StartsWith(pattern, Https \o SchemeSep) THEN Https
               ELSE IF StartsWith(pattern, Http \o SchemeSep) THEN Http
               ELSE <<>>
        rest == Drop(pattern, Len(sch) + Len(SchemeSep))
        cut  == IndexOf(rest, "/")
    IN IF sch = <<>> \/ cut = 1
       THEN [matched |-> FALSE]
       ELSE [matched |-> TRUE, scheme |-> sch, host |-> SubSeq(rest, 1, cut - 1),
             path |-> Drop(rest, cut - 1)]

\* The regular expression a host text denotes once its special characters
\* except "*" are escaped: each character stands for itself, and a "*" after
\* a character makes that character repeatable (zero or more times). A "*"
\* with nothing to repeat is a SyntaxError of new RegExp.
RECURSIVE HostItems(_)
HostItems(text) ==
    IF text = <<>> THEN <<>>
    ELSE IF Len(text) >= 2 /\ text[2] = "*"
         THEN <<[ch |-> text[1], star |-> TRUE]>> \o HostItems(Drop(text, 2))
         ELSE <<[ch |-> text[1], star |-> FALSE]>> \o HostItems(Tail(text))

HostCompiles(text) ==
    \A i \in 1..Len(text) : text[i] = "*" => (i > 1 /\ text[i - 1] # "*")

\* regex.test for a sequence of host items, anchored at both ends.
RECURSIVE ItemsMatch(_, _)
ItemsMatch(items, str) ==
    IF items = <<>> THEN str = <<>>
    ELSE IF items[1].star
         THEN \/ ItemsMatch(Tail(items), str)
              \/ str # <<>> /\ str[1] = items[1].ch /\ ItemsMatch(items, Tail(str))
         ELSE str # <<>> /\ str[1] = items[1].ch /\ ItemsMatch(Tail(items), Tail(str))

\* The path part: special characters escaped, each "*" replaced by ".*".
RECURSIVE PathMatch(_, _)
PathMatch(glob, str) ==
    IF glob = <<>> THEN str = <<>>
    ELSE IF glob[1] = "*"
         THEN \E k \in 0..Len(str) : PathMatch(Tail(glob), Drop(str, k))
         ELSE str # <<>> /\ str[1] = glob[1] /\ PathMatch(Tail(glob), Tail(str))

InvalidPattern == [valid |-> FALSE]

\* matchPatternToRegExp(pattern): the compiled matcher, or InvalidPattern for
\* null. hostKind "label?" is the prefix (?:[^\/.]+\.)? the code puts in
\* front of the rest of a host that starts with "*.", "any" is [^\/]+.
matchPatternToRegExp(pattern) ==
    IF pattern = AllUrls
    THEN [valid |-> TRUE, all |-> TRUE]
    ELSE LET g == PatternGroups(pattern) IN
         IF ~g.matched THEN InvalidPattern
         ELSE LET schemes == IF g.scheme = <<"*">> THEN {Http, Https} ELSE {g.scheme}
                  hostKind == IF StartsWith(g.host, <<"*", ".">>) THEN "label?"
                              ELSE IF g.host = <<"*">> THEN "any"
                              ELSE IF Includes(g.host, "*") THEN "invalid"
                              ELSE "literal"
                  hostText == IF hostKind = "label?" THEN Drop(g.host, 2)
                              ELSE IF hostKind = "any" THEN <<>> ELSE g.host
              IN IF hostKind = "invalid" \/ ~HostCompiles(hostText)
                 THEN InvalidPattern
                 ELSE [valid |-> TRUE, all |-> FALSE, schemes |-> schemes,
                       hostKind |-> hostKind, host |-> HostItems(hostText),
                       path |-> g.path]

\* A run of one or more characters other than the excluded ones.
NoneOf(str, excluded) == str # <<>> /\ \A i \in 1..Len(str) : str[i] \notin excluded

HostTest(m, h) ==
    CASE m.hostKind = "any" -> NoneOf(h, {"/"})
      [] m.hostKind = "literal" -> ItemsMatch(m.host, h)
      [] m.hostKind = "label?" ->
            \/ ItemsMatch(m.host, h)
            \/ \E j \in 1..(Len(h) - 1) :
                  /\ NoneOf(SubSeq(h, 1, j), {"/", "."})
                  /\ h[j + 1] = "."
                  /\ ItemsMatch(m.host, Drop(h, j + 1))

\* regex.test(urlToMatch) for a compiled matcher:
\* ^scheme:\/\/host path$, and ^https?:\/\/.* for <all_urls>.
RegexTest(m, str) ==
    IF m.all
    THEN StartsWith(str, Http \o SchemeSep) \/ StartsWith(str, Https \o SchemeSep)
    ELSE \E sch \in m.schemes :
            /\ StartsWith(str, sch \o SchemeSep)
            /\ LET r == Drop(str, Len(sch) + Len(SchemeSep)) IN
               \E k \in 0..Len(r) :
                  /\ HostTest(m, SubSeq(r, 1, k))
                  /\ IF m.path = <<>>
                     THEN k = Len(r) \/ r[k + 1] = "/"
                     ELSE PathMatch(m.path, Drop(r, k))

\* const urlToMatch = parsedUrl.origin + parsedUrl.pathname + parsedUrl.search
UrlToMatch_WithHash(url) ==
    url.scheme \o SchemeSep \o url.host \o url.pathname \o url.search \o url.hash

UrlToMatch(url) == url.scheme \o SchemeSep \o url.host \o url.pathname \o url.search

\* urlMatches(patterns, urlString): false for a string new URL rejects and for
\* a protocol other than http: and https:, else whether some pattern compiles
\* and its matcher accepts the URL without its fragment.
urlMatches_NonEmpty(patterns, url) ==
    /\ url.valid
    /\ url.scheme \in {Http, Https}
    /\ patterns # <<>>

urlMatches_StopAtInvalid(patterns, url) ==
    /\ url.valid
    /\ url.scheme \in {Http, Https}
    /\ \E i \in 1..Len(patterns) :
          /\ \A j \in 1..i : matchPatternToRegExp(patterns[j]).valid
          /\ RegexTest(matchPatternToRegExp(patterns[i]), UrlToMatch(url))

urlMatches(patterns, url) ==
    /\ url.valid
    /\ url.scheme \in {Http, Https}
    /\ \E i \in 1..Len(patterns) :
          LET regex == matchPatternToRegExp(patterns[i])
          IN regex.valid /\ RegexTest(regex, UrlToMatch(url))

\* A userscript file's content: whether it holds a ==UserScript== block, the
\* "// @key value" lines of the block in order, and what evaluating the
\* script in the page does (body): "value" - runs to completion, "throws" -
\* raises, "promise" - its completion value is a promise.
ValuesOf(lines, key) ==
    LET sel == SelectSeq(lines, LAMBDA l : l[1] = key)
    IN [i \in 1..Len(sel) |-> sel[i][2]]

\* String.prototype.toLowerCase on the @run-at values of the inputs.
ToLowerCase_Identity(v) == v

ToLowerCase(v) ==
    CASE v = "Document-End" -> "document-end"
      [] v = "DOCUMENT-IDLE" -> "document-idle"
      [] v = "Document-Body" -> "document-body"
      [] OTHER -> v

validRunAt == {"document-start", "document-end", "document-idle"}

\* parseMetadata(scriptContent)
parseMetadata(content) ==
    IF ~content.block
    THEN [match |-> <<>>, runAt |-> "document-start", name |-> <<"Unnamed Script">>]
    ELSE LET runAts == ValuesOf(content.lines, "run-at")
             names  == ValuesOf(content.lines, "name")
             runAt  == IF runAts = <<>> THEN "document-start"
                       ELSE ToLowerCase(runAts[1])
         IN [match |-> ValuesOf(content.lines, "match"),
             runAt |-> IF runAt \in validRunAt THEN runAt ELSE "document-start",
             name  |-> IF names = <<>> THEN <<"Unnamed Script">> ELSE names]

\* loadUserscripts, the test of one directory entry: a .user.js file that can
\* be read and whose metadata lists at least one @match value.
EntryLoads(f) ==
    /\ f.userjs
    /\ f.readable
    /\ parseMetadata(f.content).match # <<>>

\* name: metadata.name?.[0] || path.basename(file)
RecordName(metadata, fname) ==
    IF metadata.name # <<>> /\ metadata.name[1] # "" THEN metadata.name[1] ELSE fname

\* loadUserscripts(directory): the catalog, in the order of readdir; [] for a
\* missing or unreadable directory; any other readdir error is thrown again.
loadUserscripts(directory) ==
    IF directory.err \in {"ENOENT", "EACCES"} THEN [thrown |-> FALSE, scripts |-> <<>>]
    ELSE IF directory.err # "none" THEN [thrown |-> TRUE, scripts |-> <<>>]
    ELSE LET loaded == SelectSeq(directory.files, EntryLoads)
         IN [thrown |-> FALSE,
             scripts |-> [i \in 1..Len(loaded) |->
                            LET metadata == parseMetadata(loaded[i].content)
                            IN [path |-> loaded[i].file,
                                name |-> RecordName(metadata, loaded[i].file),
                                content |-> loaded[i].content,
                                matchPatterns |-> metadata.match,
                                runAt |-> metadata.runAt]]]

\* ------------------------------------------------------------------------
\* Host side: injection (main.js)
\* ------------------------------------------------------------------------

\* The partition of the catalog into scriptsToInject: a script whose patterns
\* match the target URL is pushed to the list of its runAt.
PlanPush_AnyPhase(script, phase, url) == urlMatches(script.matchPatterns, url)

PlanPush(script, phase, url) ==
    urlMatches(script.matchPatterns, url) /\ script.runAt = phase

BuildPlan_Reversed(scripts, url) ==
    [phase \in validRunAt |->
        LET sel == SelectSeq(scripts, LAMBDA sc : PlanPush(sc, phase, url))
        IN [i \in 1..Len(sel) |-> sel[Len(sel) + 1 - i]]]

BuildPlan(scripts, url) ==
    [phase \in validRunAt |-> SelectSeq(scripts, LAMBDA sc : PlanPush(sc, phase, url))]

EmptyPlan == [phase \in validRunAt |-> <<>>]

HomeUrl == [valid |-> TRUE, scheme |-> Https, host |-> <<"x", ".", "c">>,
            pathname |-> <<"/">>, search |-> <<>>, hash |-> <<>>]

\* A run without userscripts (the directory does not exist): nothing is
\* loaded, planned or registered.
NoScripts ==
    /\ userscriptsDir = [err |-> "ENOENT", files |-> <<>>]
    /\ targetUrl = HomeUrl
    /\ allUserscripts = <<>>
    /\ scriptsToInject = EmptyPlan
    /\ initPos = 0
    /\ initScripts = <<>>
    /\ handlers = {}
    /\ evalLog = <<>>

\* Before navigation: the page shows no document yet.
NoInjection == NoScripts /\ docLoads = 0 /\ docState = "none"

\* After page.goto resolved (waitUntil: 'load').
PageLoaded == NoScripts /\ docLoads = 1 /\ docState = "complete"

\* Number of documents the page loads in a run (the navigation of page.goto
\* and later reloads or navigations of the page itself).
MaxLoads == 2

\* const allUserscripts = await loadUserscripts(userscriptsDir); an error it
\* throws ends the try block.
LoadCatalog ==
    /\ pc = "prepare"
    /\ LET r == loadUserscripts(userscriptsDir) IN
       IF r.thrown THEN Throw /\ UNCHANGED allUserscripts
       ELSE pc' = "polyfill" /\ allUserscripts' = r.scripts
    /\ UNCHANGED <<xhrVars, pageClosed, storeVars, config, browser, context, page>>
    /\ UNCHANGED <<userscriptsDir, targetUrl, scriptsToInject, initPos, initScripts,
                   docLoads, docState, handlers, evalLog>>

\* page.isClosed()
PageIsClosed_Never == FALSE

PageIsClosed == pageClosed

\* await page.addInitScript(...): the code is registered to run in every new
\* document of the page; on a closed page the call rejects.
AddInit_Skip(registered, what) == registered

AddInit_Front(registered, what) ==
    IF pageClosed THEN registered ELSE <<what>> \o registered

AddInit(registered, what) ==
    IF pageClosed THEN registered ELSE Append(registered, what)

\* The polyfill: fs.access, then page.addInitScript({path}); every error is
\* caught and logged. Then the target URL is matched against the catalog and
\* scriptsToInject is filled.
InjectPolyfill(readable) ==
    /\ pc = "polyfill"
    /\ pc' = "initScripts"
    /\ initScripts' = IF readable THEN AddInit(initScripts, "polyfill") ELSE initScripts
    /\ scriptsToInject' = BuildPlan(allUserscripts, targetUrl)
    /\ initPos' = 0
    /\ UNCHANGED <<xhrVars, pageClosed, storeVars, config, browser, context, page>>
    /\ UNCHANGED <<userscriptsDir, targetUrl, allUserscripts, docLoads, docState,
                   handlers, evalLog>>

\* One round of the document-start loop:
\* try { await page.addInitScript({content: script.content}) } catch { log }
AddInitScript ==
    /\ pc = "initScripts"
    /\ initPos < Len(scriptsToInject["document-start"])
    /\ initPos' = initPos + 1
    /\ initScripts' = AddInit(initScripts,
                              scriptsToInject["document-start"][initPos + 1].path)
    /\ UNCHANGED <<xhrVars, pageClosed, storeVars, mainVars>>
    /\ UNCHANGED <<userscriptsDir, targetUrl, allUserscripts, scriptsToInject,
                   docLoads, docState, handlers, evalLog>>

\* After the loop: page.on('domcontentloaded'), page.on('load'), the other
\* listeners and, if asked for, page.route (errors caught).
RegisterListeners ==
    /\ pc = "initScripts"
    /\ initPos = Len(scriptsToInject["document-start"])
    /\ pc' = "goto"
    /\ UNCHANGED <<xhrVars, pageClosed, storeVars, config, browser, context, page>>
    /\ UNCHANGED injVars

\* A new document of the page: the registered initialization code runs in it,
\* in the order of registration, before any script of the document.
InitPhase(what) == IF what = "polyfill" THEN "polyfill" ELSE "document-start"

RunInitScripts(load) ==
    [i \in 1..Len(initScripts) |->
        [script |-> initScripts[i], phase |-> InitPhase(initScripts[i]), load |-> load,
         outcome |-> "delivered", closed |-> FALSE]]

\* await page.goto(targetUrl, ...) is called: navigation starts; on a closed
\* page the call throws.
GotoStarts ==
    /\ pc = "goto"
    /\ IF pageClosed
       THEN Throw /\ UNCHANGED <<docLoads, docState, evalLog>>
       ELSE /\ pc' = "navigating"
            /\ docLoads' = 1
            /\ docState' = "loading"
            /\ evalLog' = evalLog \o RunInitScripts(1)
    /\ UNCHANGED <<xhrVars, pageClosed, storeVars, config, browser, context, page>>
    /\ UNCHANGED <<userscriptsDir, targetUrl, allUserscripts, scriptsToInject, initPos,
                   initScripts, handlers>>

\* One round of a listener's loop for script number i of its phase:
\* if (!page.isClosed()) await page.evaluate(script.content);
\* once the page is closed every later round does nothing and the listener
\* returns. Otherwise the evaluation is requested and the listener waits.
LoopFrom(h, i, log) ==
    IF i > Len(scriptsToInject[h.phase]) \/ PageIsClosed
    THEN /\ handlers' = handlers \ {h}
         /\ evalLog' = log
    ELSE /\ handlers' = (handlers \ {h}) \cup
                        {[h EXCEPT !.i = i, !.st = "evaluating", !.e = Len(log) + 1]}
         /\ evalLog' = Append(log, [script |-> scriptsToInject[h.phase][i].path,
                                    phase |-> h.phase, load |-> h.load,
                                    outcome |-> "requested", closed |-> pageClosed])

\* The listener of an event starts: its loop runs up to the first await.
StartHandler(phase) ==
    LoopFrom([phase |-> phase, load |-> docLoads, i |-> 0, st |-> "start", e |-> 0],
             1, evalLog)

\* page.on('domcontentloaded', async () => {...})
DomContentLoaded ==
    /\ docState = "loading"
    /\ ~pageClosed
    /\ docState' = "interactive"
    /\ StartHandler("document-end")
    /\ UNCHANGED <<xhrVars, pageClosed, storeVars, mainVars>>
    /\ UNCHANGED <<userscriptsDir, targetUrl, allUserscripts, scriptsToInject, initPos,
                   initScripts, docLoads>>

\* page.on('load', async () => {...}); the load event also resolves the
\* pending page.goto (waitUntil: 'load').
LoadEvent ==
    /\ docState = "interactive"
    /\ ~pageClosed
    /\ docState' = "complete"
    /\ StartHandler("document-idle")
    /\ pc' = IF pc = "navigating" THEN "wait" ELSE pc
    /\ UNCHANGED <<xhrVars, pageClosed, storeVars, config, browser, context, page>>
    /\ UNCHANGED <<userscriptsDir, targetUrl, allUserscripts, scriptsToInject, initPos,
                   initScripts, docLoads>>

\* The catch of a round: the error is logged (not when the page is closed)
\* and the loop goes on with the next script.
CatchGoesOn_Break(i, n) == n + 1

CatchGoesOn(i, n) == i + 1

SetOutcome(log, e, outcome) == [log EXCEPT ![e] = [@ EXCEPT !.outcome = outcome]]

\* The page.evaluate call a listener waits for settles, the page being open:
\* a script that ran to completion resolves it, a script that raised rejects
\* it, and so does the loss of the document it was sent to; for a script
\* whose completion value is a promise page.evaluate waits for that promise.
EvalSettles(h) ==
    /\ h \in handlers
    /\ h.st \in {"evaluating", "destroyed"}
    /\ ~pageClosed
    /\ LET body == scriptsToInject[h.phase][h.i].content.body
           n    == Len(scriptsToInject[h.phase])
       IN CASE h.st = "destroyed" \/ body = "throws" ->
                  LoopFrom(h, CatchGoesOn(h.i, n), SetOutcome(evalLog, h.e, "failed"))
            [] h.st = "evaluating" /\ body = "value" ->
                  LoopFrom(h, h.i + 1, SetOutcome(evalLog, h.e, "ok"))
            [] h.st = "evaluating" /\ body = "promise" ->
                  /\ handlers' = (handlers \ {h}) \cup {[h EXCEPT !.st = "promise"]}
                  /\ UNCHANGED evalLog
    /\ UNCHANGED <<xhrVars, pageClosed, storeVars, mainVars>>
    /\ UNCHANGED <<userscriptsDir, targetUrl, allUserscripts, scriptsToInject, initPos,
                   initScripts, docLoads, docState>>

\* The promise a script yielded is fulfilled: page.evaluate resolves.
PromiseSettles(h) ==
    /\ h \in handlers
    /\ h.st = "promise"
    /\ ~pageClosed
    /\ LoopFrom(h, h.i + 1, SetOutcome(evalLog, h.e, "ok"))
    /\ UNCHANGED <<xhrVars, pageClosed, storeVars, mainVars>>
    /\ UNCHANGED <<userscriptsDir, targetUrl, allUserscripts, scriptsToInject, initPos,
                   initScripts, docLoads, docState>>

\* The page was closed while a listener waited: page.evaluate rejects, the
\* catch stays silent and the loop goes on.
EvalRejectsOnClose(h) ==
    /\ h \in handlers
    /\ pageClosed
    /\ LoopFrom(h, CatchGoesOn(h.i, Len(scriptsToInject[h.phase])),
                SetOutcome(evalLog, h.e, "dropped"))
    /\ UNCHANGED <<xhrVars, pageClosed, storeVars, mainVars>>
    /\ UNCHANGED <<userscriptsDir, targetUrl, allUserscripts, scriptsToInject, initPos,
                   initScripts, docLoads, docState>>

\* The page reloads or navigates on its own during the observation window:
\* a new document starts to load, evaluations still running in the old
\* document are lost.
Renavigate ==
    /\ pc = "wait"
    /\ docState = "complete"
    /\ ~pageClosed
    /\ docLoads < MaxLoads
    /\ docLoads' = docLoads + 1
    /\ docState' = "loading"
    /\ evalLog' = evalLog \o RunInitScripts(docLoads + 1)
    /\ handlers' = {[h EXCEPT !.st = "destroyed"] : h \in handlers}
    /\ UNCHANGED <<xhrVars, pageClosed, storeVars, mainVars>>
    /\ UNCHANGED <<userscriptsDir, targetUrl, allUserscripts, scriptsToInject, initPos,
                   initScripts>>

\* ------------------------------------------------------------------------
\* Inputs of the injection: userscript files, directories, target URLs
\* ------------------------------------------------------------------------

\* Match patterns: *://x.c/*, *://*.x.c/*, https://b.c/*, ftp://x.c/* (the
\* last one does not compile).
PatHome == <<"*">> \o SchemeSep \o <<"x", ".", "c", "/", "*">>

PatSub == <<"*">> \o SchemeSep \o <<"*", ".", "x", ".", "c", "/", "*">>

PatOther == Https \o SchemeSep \o <<"b", ".", "c", "/", "*">>

PatFtp == <<"f", "t", "p">> \o SchemeSep \o <<"x", ".", "c", "/", "*">>

\* *://x.c/ (the root path only), file:///* (does not compile) and *://*.*/*
\* (new RegExp throws a SyntaxError: nothing to repeat).
PatExact == <<"*">> \o SchemeSep \o <<"x", ".", "c", "/">>

PatFile == <<"f", "i", "l", "e">> \o SchemeSep \o <<"/", "*">>

PatBadHost == <<"*">> \o SchemeSep \o <<"*", ".", "*", "/", "*">>

\* *://*/* (any host), *://x.*/* (a "*" at the end of the host) and
\* *://*.x*.c/* (a "*" inside the host after the "*." prefix).
PatAnyHost == <<"*">> \o SchemeSep \o <<"*", "/", "*">>

PatStarEnd == <<"*">> \o SchemeSep \o <<"x", ".", "*", "/", "*">>

PatStarInside == <<"*">> \o SchemeSep \o <<"*", ".", "x", "*", ".", "c", "/", "*">>

\* A readable .user.js file with a metadata block.
UserJs(fname, lines, body) ==
    [file |-> fname, userjs |-> TRUE, readable |-> TRUE,
     content |-> [block |-> TRUE, lines |-> lines, body |-> body]]

\* A userscript for the home URL that runs at the given phase.
HomeScript(fname, runAt, body) ==
    UserJs(fname, <<<<"name", fname>>, <<"match", PatHome>>, <<"run-at", runAt>>>>, body)

Directory(files) == [err |-> "none", files |-> files]

\* The directories of the runs whose injection is followed step by step.
InjectDirs ==
    { Directory(<<HomeScript("a", "document-start", "value"),
                  HomeScript("b", "document-start", "value"),
                  HomeScript("c", "document-end", "throws"),
                  HomeScript("d", "document-end", "value"),
                  HomeScript("e", "document-idle", "value")>>),
      Directory(<<HomeScript("a", "document-end", "promise"),
                  HomeScript("b", "document-end", "value"),
                  HomeScript("c", "document-idle", "value")>>),
      Directory(<<HomeScript("a", "document-idle", "throws"),
                  HomeScript("b", "document-idle", "value"),
                  HomeScript("c", "document-idle", "value")>>) }

\* Largest number of files of a directory whose catalog and plan are computed.
MaxFiles == 2

\* Files: a plain script; one with two matching patterns and a mixed-case
\* @run-at; one whose only pattern does not compile; one without metadata
\* block; one without @match; one for subdomains; one for another site; one
\* that is no .user.js file; one that cannot be read; one for <all_urls> with
\* an unknown @run-at; one whose first pattern does not compile and with two
\* @run-at values; one whose first and last patterns do not compile and whose
\* first @run-at is unknown; one with a "*" at the end and one inside the
\* host; one for any host.
PlanFiles ==
    { HomeScript("a", "document-end", "value"),
      UserJs("b", <<<<"match", PatHome>>, <<"run-at", "Document-End">>,
                    <<"match", PatSub>>>>, "value"),
      UserJs("c", <<<<"name", "c">>, <<"match", PatFtp>>,
                    <<"run-at", "document-idle">>>>, "value"),
      [file |-> "d", userjs |-> TRUE, readable |-> TRUE,
       content |-> [block |-> FALSE, lines |-> <<>>, body |-> "value"]],
      UserJs("e", <<<<"name", "e">>, <<"run-at", "document-idle">>>>, "value"),
      UserJs("f", <<<<"match", PatSub>>, <<"run-at", "document-idle">>>>, "value"),
      UserJs("g", <<<<"match", PatOther>>>>, "value"),
      [HomeScript("h", "document-start", "value") EXCEPT !.userjs = FALSE],
      [HomeScript("i", "document-start", "value") EXCEPT !.readable = FALSE],
      UserJs("j", <<<<"name", "j">>, <<"match", AllUrls>>,
                    <<"run-at", "Document-Body">>>>, "value"),
      UserJs("k", <<<<"name", "k">>, <<"match", PatFtp>>, <<"match", PatExact>>,
                    <<"run-at", "DOCUMENT-IDLE">>, <<"run-at", "document-end">>>>,
             "value"),
      UserJs("l", <<<<"run-at", "body">>, <<"match", PatBadHost>>,
                    <<"match", PatHome>>, <<"match", PatFile>>,
                    <<"run-at", "document-end">>>>, "value"),
      UserJs("m", <<<<"name", "m">>, <<"match", PatStarEnd>>,
                    <<"match", PatStarInside>>>>, "value"),
      UserJs("n", <<<<"name", "n">>, <<"match", PatAnyHost>>>>, "value") }

\* readdir lists every file once.
DistinctFiles(files) ==
    \A i, j \in 1..Len(files) : i # j => files[i].file # files[j].file

PlanDirs ==
    {[err |-> e, files |-> <<>>] : e \in {"ENOENT", "EACCES", "ENOTDIR"}}
    \cup {Directory(files) : files \in
            {fs \in UNION {[1..n -> PlanFiles] : n \in 0..MaxFiles} : DistinctFiles(fs)}}

UrlOf(scheme, host) ==
    [valid |-> TRUE, scheme |-> scheme, host |-> host, pathname |-> <<"/">>,
     search |-> <<>>, hash |-> <<>>]

\* https://x.c/, https://x.c/#f, https://x.c/?q#f, file:///x, http://a.x.c/,
\* https://a.b.x.c/, https://ex.c/, https://x.c.e.c/, https://b.c/, ftp://x.c/
PlanUrls ==
    { HomeUrl,
      [HomeUrl EXCEPT !.hash = <<"#", "f">>],
      [HomeUrl EXCEPT !.search = <<"?", "q">>, !.hash = <<"#", "f">>],
      [UrlOf(<<"f", "i", "l", "e">>, <<>>) EXCEPT !.pathname = <<"/", "x">>],
      UrlOf(Http, <<"a", ".", "x", ".", "c">>),
      UrlOf(Https, <<"a", ".", "b", ".", "x", ".", "c">>),
      UrlOf(Https, <<"e", "x", ".", "c">>),
      UrlOf(Https, <<"x", ".", "c", ".", "e", ".", "c">>),
      UrlOf(Https, <<"b", ".", "c">>),
      UrlOf(<<"f", "t", "p">>, <<"x", ".", "c">>) }

\* ------------------------------------------------------------------------
\* Specifications
\* ------------------------------------------------------------------------

XhrInit0 ==
    /\ requestIdCounter = 0
    /\ requestMap = <<>>
    /\ xhrCalls = <<>>
    /\ invoked = [n \in CallNos |-> <<>>]
    /\ delivered = [n \in CallNos |-> <<>>]
    /\ ignored = [n \in CallNos |-> <<>>]
    /\ abortCalls = [n \in CallNos |-> "no"]
    /\ bridge = [n \in CallNos |-> NoBridge]
    /\ sent = [n \in CallNos |-> <<>>]
    /\ dropped = [n \in CallNos |-> <<>>]
    /\ channel = <<>>
    /\ pageClosed = FALSE

\* The run has reached the observation window: browser, context and page
\* exist, the bridge functions are exposed, the page is navigated.
PageUp ==
    /\ pc = "wait"
    /\ config = [browserType |-> "chromium", extensions |-> FALSE]
    /\ browser = "open"
    /\ context = "open"
    /\ page = "created"

InitXhr ==
    /\ XhrInit0
    /\ PageUp
    /\ file = NoFile
    /\ gmStorage = <<>>
    /\ storeCalls = <<>>
    /\ saves = <<>>
    /\ PageLoaded

NextXhr ==
    \/ \E details \in DetailsChoices : GM_xmlhttpRequest(details)
    \/ \E n \in CallNos : AbortHandle(n)
    \/ GM_xmlhttpRequest_callback_handler
    \/ \E n \in CallNos : TimeoutFires(n)
    \/ \E n \in CallNos, header \in ContentTypes : FetchResolves(n, header)
    \/ \E n \in CallNos : FetchRejects(n)
    \/ \E n \in CallNos, ok \in BOOLEAN : BodyRead(n, ok)
    \/ PageCloses

SpecXhr == InitXhr /\ [][NextXhr]_vars

\* The same steps while the page stays open.
NextXhrLive ==
    \/ \E details \in DetailsChoices : GM_xmlhttpRequest(details)
    \/ \E n \in CallNos : AbortHandle(n)
    \/ GM_xmlhttpRequest_callback_handler
    \/ \E n \in CallNos : TimeoutFires(n)
    \/ \E n \in CallNos, header \in ContentTypes : FetchResolves(n, header)
    \/ \E n \in CallNos : FetchRejects(n)
    \/ \E n \in CallNos, ok \in BOOLEAN : BodyRead(n, ok)

\* await fetch(url, fetchOptions) of invocation n settles, or its timer fires.
FetchSettles(n) ==
    \/ TimeoutFires(n)
    \/ \E header \in ContentTypes : FetchResolves(n, header)
    \/ FetchRejects(n)

\* The page stays open; the page runs every page.evaluate it was sent (its
\* event loop takes them in order), and every fetch that was started settles
\* or is overtaken by its timer. Nothing in main.js bounds the time that
\* response.text() / json() / arrayBuffer() take: the timer is cleared when
\* fetch resolves, so the end of a body read is left to the server.
SpecXhrLive ==
    /\ InitXhr
    /\ [][NextXhrLive]_vars
    /\ WF_vars(GM_xmlhttpRequest_callback_handler)
    /\ \A n \in CallNos : WF_vars(FetchSettles(n))

\* Requests that differ in the response type they ask for, issued one after
\* the other by a page that waits for the terminal event of each.
NextResponse ==
    \/ \E details \in ResponseDetails :
          /\ \A n \in CallNos : bridge[n].pc \in {"none", "done"}
          /\ channel = <<>>
          /\ GM_xmlhttpRequest(details)
    \/ GM_xmlhttpRequest_callback_handler
    \/ \E n \in CallNos, header \in ResponseContentTypes : FetchResolves(n, header)
    \/ \E n \in CallNos, ok \in BOOLEAN : BodyRead(n, ok)

SpecResponse == InitXhr /\ [][NextResponse]_vars

\* Requests that differ in their headers and credentials, issued one after
\* the other.
NextAuth ==
    \/ \E details \in AuthDetails :
          /\ \A n \in CallNos : bridge[n].pc \in {"none", "done"}
          /\ channel = <<>>
          /\ GM_xmlhttpRequest(details)
    \/ GM_xmlhttpRequest_callback_handler
    \/ \E n \in CallNos, header \in ContentTypes : FetchResolves(n, header)
    \/ \E n \in CallNos : BodyRead(n, TRUE)

SpecAuth == InitXhr /\ [][NextAuth]_vars

InitStore ==
    /\ XhrInit0
    /\ PageUp
    /\ file = NoFile
    /\ gmStorage = LoadGmStorage(file)
    /\ storeCalls = <<>>
    /\ saves = <<>>
    /\ PageLoaded

NextStore ==
    \/ \E kv \in SetInputs : gmSetValueBridge(kv[1], kv[2])
    \/ \E key \in Keys : gmGetValueBridge(key, DefaultValue)
    \/ \E key \in Keys : gmDeleteValueBridge(key)
    \/ gmListValuesBridge
    \/ \E i \in 1..MaxStoreCalls : WriteFileResolves(i)
    \/ \E i \in 1..MaxStoreCalls : WriteFileRejects(i)

SpecStore == InitStore /\ [][NextStore]_vars

\* The GM_setValue calls the page issues during a run.
MainSetInputs == {<<"a", "v1">>}

InitMain ==
    /\ XhrInit0
    /\ pc = "launch"
    /\ config \in [browserType : {"chromium", "firefox"}, extensions : BOOLEAN]
    /\ browser = "null"
    /\ context = "null"
    /\ page = "null"
    /\ file \in {NoFile, CorruptFile, JsonFile(<<>>), JsonFile([k \in {"b"} |-> "v1"])}
    /\ gmStorage = LoadGmStorage(file)
    /\ storeCalls = <<>>
    /\ saves = <<>>
    /\ NoInjection

NextMain ==
    \/ \E ok \in BOOLEAN : Launch(ok)
    \/ \E ok \in BOOLEAN : NewContext(ok)
    \/ \E ok \in BOOLEAN : NewPage(ok)
    \/ \E ok \in BOOLEAN : ExposeBridge(ok)
    \/ \E ok \in BOOLEAN : Prepare(ok)
    \/ \E ok \in BOOLEAN : Navigate(ok)
    \/ ObservationEnds
    \/ Finally
    \/ CloseAll
    \/ PageCloses
    \/ \E kv \in MainSetInputs : gmSetValueBridge(kv[1], kv[2])
    \/ \E i \in 1..(MaxStoreCalls + 1) : WriteFileResolves(i)
    \/ \E i \in 1..(MaxStoreCalls + 1) : WriteFileRejects(i)

SpecMain == InitMain /\ [][NextMain]_vars

\* The injection of a run, from the exposed bridge to the observation window.
PageReady ==
    /\ XhrInit0
    /\ pc = "prepare"
    /\ config = [browserType |-> "chromium", extensions |-> FALSE]
    /\ browser = "open"
    /\ context = "open"
    /\ page = "created"
    /\ file = NoFile
    /\ gmStorage = <<>>
    /\ storeCalls = <<>>
    /\ saves = <<>>
    /\ allUserscripts = <<>>
    /\ scriptsToInject = EmptyPlan
    /\ initPos = 0
    /\ initScripts = <<>>
    /\ docLoads = 0
    /\ docState = "none"
    /\ handlers = {}
    /\ evalLog = <<>>

InitInject ==
    /\ PageReady
    /\ userscriptsDir \in InjectDirs
    /\ targetUrl = HomeUrl

NextInject ==
    \/ LoadCatalog
    \/ \E readable \in BOOLEAN : InjectPolyfill(readable)
    \/ AddInitScript
    \/ RegisterListeners
    \/ GotoStarts
    \/ DomContentLoaded
    \/ LoadEvent
    \/ \E h \in handlers : EvalSettles(h)
    \/ \E h \in handlers : PromiseSettles(h)
    \/ \E h \in handlers : EvalRejectsOnClose(h)
    \/ PageCloses

SpecInject == InitInject /\ [][NextInject]_vars

\* The same run with a page that reloads during the observation window.
ReloadDirs ==
    { Directory(<<HomeScript("a", "document-start", "value"),
                  HomeScript("b", "document-end", "value"),
                  HomeScript("c", "document-idle", "promise")>>) }

InitReload ==
    /\ PageReady
    /\ userscriptsDir \in ReloadDirs
    /\ targetUrl = HomeUrl

NextReload == NextInject \/ Renavigate

SpecReload == InitReload /\ [][NextReload]_vars

\* The catalog and the injection plan for a directory and a target URL.
InitPlan ==
    /\ PageReady
    /\ userscriptsDir \in PlanDirs
    /\ targetUrl \in PlanUrls

NextPlan ==
    \/ LoadCatalog
    \/ \E readable \in BOOLEAN : InjectPolyfill(readable)

SpecPlan == InitPlan /\ [][NextPlan]_vars

\* ------------------------------------------------------------------------
\* Properties of the GM_xmlhttpRequest bridge (checked under SpecXhr)
\* ------------------------------------------------------------------------

\* Invocation n has nothing left to send and nothing of it is in flight.
Quiet(n) == bridge[n].pc \in {"none", "done"} /\ EventsFrom(channel, n) = <<>>

\* C1: for every request identifier the caller's terminal callbacks are invoked
\* at most once in total: the first terminal event that reaches the handler
\* retires the identifier from the pending table, so no second event is accepted
\* for the call and no second callback runs.
C1_CallbackAtMostOnce ==
    \A n \in 1..Len(xhrCalls) :
        /\ Len(invoked[n]) <= 1
        /\ Len(delivered[n]) <= 1
        /\ delivered[n] # <<>> => xhrCalls[n].id \notin DOMAIN requestMap

\* C1 witness: a callback has run for a call and a later event for the same
\* identifier reached the handler and was ignored.
C1_Witness ==
    \E n \in 1..Len(xhrCalls) :
        /\ Len(invoked[n]) = 1
        /\ ignored[n] # <<>>
        /\ xhrCalls[n].id \notin DOMAIN requestMap

\* C2: when the timer of a request fires while its fetch is pending, the fetch
\* is cancelled, the only terminal event the caller gets is ontimeout, nothing
\* (no onload, no other terminal event) follows it, and with the page open it
\* is delivered once the host's events have been handled.
C2_TimeoutYieldsOnlyTimeout ==
    \A n \in 1..Len(xhrCalls) :
        bridge[n].timer = "fired" =>
            /\ bridge[n].fetch = "aborted"
            /\ delivered[n] \in {<<>>, <<[event |-> "ontimeout", from |-> n]>>}
            /\ invoked[n] \in {<<>>, <<"ontimeout">>}
            /\ (~pageClosed /\ Quiet(n)) =>
                   /\ delivered[n] = <<[event |-> "ontimeout", from |-> n]>>
                   /\ "ontimeout" \in xhrCalls[n].cbs => invoked[n] = <<"ontimeout">>

\* C2 witness: a request timed out, its ontimeout callback ran, and the host's
\* second event for it was dropped by the handler.
C2_Witness ==
    \E n \in 1..Len(xhrCalls) :
        /\ bridge[n].timer = "fired"
        /\ bridge[n].fetch = "aborted"
        /\ invoked[n] = <<"ontimeout">>
        /\ ignored[n] = <<"onabort">>
        /\ ~pageClosed

\* C3 (as claimed): abort() on the handle before the terminal event yields
\* exactly one onabort event and no other terminal event (no onload, onerror
\* or ontimeout) for the call.
C3_AbortYieldsOnabort ==
    \A n \in 1..Len(xhrCalls) :
        abortCalls[n] = "pending" =>
            /\ \A i \in 1..Len(delivered[n]) : delivered[n][i].event = "onabort"
            /\ (~pageClosed /\ Quiet(n)) => Len(delivered[n]) = 1

\* C4 (as claimed): the host sends at most one terminal event per invocation of
\* GM_xmlhttpRequest_bridge, on every path.
C4_HostSendsAtMostOne ==
    \A n \in CallNos : Len(sent[n]) + Len(dropped[n]) <= 1

LastWrite(i, k) ==
    LET W == {j \in 1..(i - 1) :
                 storeCalls[j].op \in {"set", "delete"} /\ storeCalls[j].key = k}
    IN IF W = {} THEN 0 ELSE CHOOSE j \in W : \A l \in W : l <= j

\* Key k was set, and not deleted afterwards, before call i.
Survives(i, k) == LastWrite(i, k) # 0 /\ storeCalls[LastWrite(i, k)].op = "set"

\* Save number of call c (0: the call issued no save).
SaveOf(c) ==
    LET S == {i \in 1..Len(saves) : saves[i].call = c}
    IN IF S = {} THEN 0 ELSE CHOOSE i \in S : TRUE

\* C6 (as claimed): over any sequence of set/get/delete/list calls, get(key,
\* default) returns the value of the most recent set(key, value) not followed
\* by delete(key) and default otherwise, and list() returns exactly the keys
\* that were set and not deleted afterwards.
C6_RoundTrip ==
    \A i \in 1..Len(storeCalls) :
        /\ storeCalls[i].op = "get" =>
              storeCalls[i].result =
                 IF Survives(i, storeCalls[i].key)
                 THEN storeCalls[LastWrite(i, storeCalls[i].key)].value
                 ELSE storeCalls[i].value
        /\ storeCalls[i].op = "list" =>
              storeCalls[i].result = {k \in Keys : Survives(i, k)}

\* C7: a set or delete call that changed the store has completed towards the
\* page only if the write of the store to the file that it issued has settled
\* (written or failed); a set call always issues one.
C7_CompletionAfterWrite ==
    \A c \in 1..Len(storeCalls) :
        /\ storeCalls[c].op = "set" => SaveOf(c) # 0
        /\ storeCalls[c].mutated => SaveOf(c) # 0
        /\ (storeCalls[c].mutated /\ storeCalls[c].state = "done") =>
              saves[SaveOf(c)].state \in {"written", "failed"}

\* C7 witness: a set and a delete have both completed, one after a write that
\* succeeded and one after a write that failed.
C7_Witness ==
    \E c, d \in 1..Len(storeCalls) :
        /\ storeCalls[c].op = "set" /\ storeCalls[c].state = "done"
        /\ storeCalls[d].op = "delete" /\ storeCalls[d].mutated
        /\ storeCalls[d].state = "done"
        /\ {saves[SaveOf(c)].state, saves[SaveOf(d)].state} = {"written", "failed"}

\* C8 (as claimed): once all set/delete calls have completed and all their
\* writes succeeded, the storage file equals the in-memory store, also when
\* calls overlapped.
C8_WriteThrough ==
    ( /\ saves # <<>>
      /\ \A i \in 1..Len(saves) : saves[i].state = "written"
      /\ \A c \in 1..Len(storeCalls) : storeCalls[c].state = "done" )
    => file = JsonFile(gmStorage)

\* C9 (as claimed): when the write of a set or delete call fails, the call
\* completes normally and the mutation is in effect: a following get of the
\* key returns the value set (the default after a delete) and a following list
\* holds the key exactly if it was set.
C9_FailedWriteStillObserved ==
    \A c \in 1..Len(storeCalls) :
        ( /\ storeCalls[c].mutated
          /\ SaveOf(c) # 0
          /\ saves[SaveOf(c)].state = "failed" ) =>
            /\ storeCalls[c].state = "done"
            /\ storeCalls[c].result = "none"
            /\ \A i \in (c + 1)..Len(storeCalls) :
                  /\ (storeCalls[i].op = "get" /\ LastWrite(i, storeCalls[c].key) = c
                        /\ storeCalls[i].key = storeCalls[c].key) =>
                        storeCalls[i].result =
                           IF storeCalls[c].op = "set" THEN storeCalls[c].value
                           ELSE storeCalls[i].value
                  /\ (storeCalls[i].op = "list" /\ LastWrite(i, storeCalls[c].key) = c) =>
                        (storeCalls[c].key \in storeCalls[i].result
                            <=> storeCalls[c].op = "set")

\* ------------------------------------------------------------------------
\* Properties of the run (checked under SpecMain)
\* ------------------------------------------------------------------------

\* The finally block of main has called saveGmStorage.
FinalSaveAttempted == \E i \in 1..Len(saves) : saves[i].call = 0

\* C10 (as claimed), for the runs that got a page: whenever the run
\* terminates, also after an error or after the page was closed before the
\* observation window ended, a final write of the store to the storage file
\* was attempted.
C10_FinalFlushOnEveryExit ==
    (pc = "done" /\ page = "created") => FinalSaveAttempted

\* ------------------------------------------------------------------------
\* Properties of the injection (checked under SpecInject)
\* ------------------------------------------------------------------------

Paths(scripts) == [i \in 1..Len(scripts) |-> scripts[i].path]

IsPrefix(a, b) == Len(a) <= Len(b) /\ a = SubSeq(b, 1, Len(a))

\* The scripts of a phase delivered (document-start) or requested for
\* evaluation (document-end, document-idle) for one page load, in order.
LogOf(phase, load) ==
    LET sel == SelectSeq(evalLog, LAMBDA en : en.phase = phase /\ en.load = load)
    IN [i \in 1..Len(sel) |-> sel[i].script]

\* The catalog's scripts of a phase that match the target URL, catalog order.
CatalogOrder(phase) ==
    Paths(SelectSeq(allUserscripts,
                    LAMBDA sc : sc.runAt = phase /\ urlMatches(sc.matchPatterns, targetUrl)))

PhaseNo(phase) ==
    CASE phase = "document-start" -> 1
      [] phase = "document-end" -> 2
      [] phase = "document-idle" -> 3
      [] OTHER -> 0

\* C11: once navigation to the target URL has begun, every matched
\* document-start script is registered as page-initialization code, in plan
\* order, and nothing is registered afterwards: the registered userscripts are
\* exactly the document-start scripts of the plan.
C11_StartScriptsRegisteredBeforeGoto ==
    docLoads >= 1 =>
        SelectSeq(initScripts, LAMBDA w : w # "polyfill")
            = Paths(scriptsToInject["document-start"])

\* C11 witness: navigation has begun with two document-start scripts planned.
C11_Witness ==
    /\ docLoads >= 1
    /\ Len(scriptsToInject["document-start"]) >= 2
    /\ LogOf("document-start", 1) = Paths(scriptsToInject["document-start"])

\* C12 (as claimed): within a page load every delivery or evaluation request
\* of an earlier phase comes before every one of a later phase, also when the
\* load event fires while the domcontentloaded listener still waits for a
\* script's evaluation.
C12_PhasesStrictlyOrdered ==
    \A i, j \in 1..Len(evalLog) :
        ( /\ evalLog[i].load = evalLog[j].load
          /\ PhaseNo(evalLog[i].phase) >= 1
          /\ PhaseNo(evalLog[i].phase) < PhaseNo(evalLog[j].phase) ) => i < j

\* C13: for every phase and page load, the scripts are delivered (requested)
\* in the catalog's discovery order, whether or not an earlier evaluation
\* failed: the requests so far are a prefix of the phase's matched catalog
\* records.
C13_OrderWithinPhase ==
    \A phase \in validRunAt : \A load \in 1..docLoads :
        IsPrefix(LogOf(phase, load), CatalogOrder(phase))

\* C13 witness: three scripts of one phase were requested in catalog order,
\* the first of them having failed.
C13_Witness ==
    /\ LogOf("document-idle", 1) = <<"a", "b", "c">>
    /\ \E e \in 1..Len(evalLog) :
          evalLog[e].script = "a" /\ evalLog[e].load = 1 /\ evalLog[e].outcome = "failed"

\* Position of the request following request e for the next script of the
\* same phase and listener run (0: none).
NextRequest(e) ==
    LET plan == Paths(scriptsToInject[evalLog[e].phase])
        S == {f \in (e + 1)..Len(evalLog) :
                /\ evalLog[f].phase = evalLog[e].phase
                /\ evalLog[f].load = evalLog[e].load
                /\ \E k \in 1..(Len(plan) - 1) :
                      plan[k] = evalLog[e].script /\ plan[k + 1] = evalLog[f].script}
    IN IF S = {} THEN 0 ELSE CHOOSE f \in S : TRUE

IsLastOfPhase(e) ==
    LET plan == Paths(scriptsToInject[evalLog[e].phase])
    IN plan[Len(plan)] = evalLog[e].script

\* C14: when the evaluation of a document-end or document-idle script has
\* raised, the page being open, the evaluation of the next script of the phase
\* has been requested: the failure does not end the phase.
C14_FailureDoesNotAbortPhase ==
    \A e \in 1..Len(evalLog) :
        ( /\ evalLog[e].outcome = "failed"
          /\ ~IsLastOfPhase(e)
          /\ ~pageClosed ) => NextRequest(e) # 0

\* C14 witness: a script raised and the script after it was evaluated.
C14_Witness ==
    \E e \in 1..Len(evalLog) :
        /\ evalLog[e].outcome = "failed"
        /\ NextRequest(e) # 0
        /\ evalLog[NextRequest(e)].outcome = "ok"

\* C15 (as claimed): a script whose completion value is a promise that is
\* still pending does not hold back the following scripts of its phase: no
\* listener waits for such a promise while scripts of the phase are still to
\* be requested.
C15_PendingPromiseDoesNotDelay ==
    \A h \in handlers :
        h.st = "promise" => h.i = Len(scriptsToInject[h.phase])

\* C16: no evaluation is requested once the page is closed: the scripts of a
\* phase that were not requested before the closure are never requested, and
\* a request that was under way is dropped without an error.
C16_NoEvaluationAfterClose ==
    /\ \A e \in 1..Len(evalLog) : ~evalLog[e].closed
    /\ pageClosed =>
          \A e \in 1..Len(evalLog) :
              evalLog[e].outcome = "requested" =>
                  \E h \in handlers : h.e = e

\* C16 witness: the page was closed while the first of several scripts of a
\* phase was being evaluated; the listener has returned, the request was
\* dropped and the other scripts were never requested.
C16_Witness ==
    /\ pageClosed
    /\ handlers = {}
    /\ \E e \in 1..Len(evalLog) :
          /\ evalLog[e].outcome = "dropped"
          /\ ~IsLastOfPhase(e)
          /\ NextRequest(e) = 0

\* ------------------------------------------------------------------------
\* Properties of the catalog and the plan (checked under SpecPlan)
\* ------------------------------------------------------------------------

\* The plan has been built from the catalog.
PlanBuilt == pc = "initScripts"

\* Some pattern of the list compiles.
HasValidPattern(patterns) ==
    \E i \in 1..Len(patterns) : matchPatternToRegExp(patterns[i]).valid

\* The catalog positions of the records of a phase of the plan.
CatalogPositions(phase) ==
    [i \in 1..Len(scriptsToInject[phase]) |->
        CHOOSE k \in 1..Len(allUserscripts) : allUserscripts[k] = scriptsToInject[phase][i]]

\* C17: in the plan built for the target URL each phase holds exactly the
\* catalog records of that phase of which some pattern matches the URL, each
\* once, in catalog order, and no record is in a phase other than its own.
C17_PlanIsExactPartition ==
    PlanBuilt =>
        /\ \A phase \in validRunAt : \A i \in 1..Len(scriptsToInject[phase]) :
              /\ scriptsToInject[phase][i].runAt = phase
              /\ \E k \in 1..Len(allUserscripts) :
                    allUserscripts[k] = scriptsToInject[phase][i]
              /\ \E j \in 1..Len(scriptsToInject[phase][i].matchPatterns) :
                    LET m == matchPatternToRegExp(scriptsToInject[phase][i].matchPatterns[j])
                    IN m.valid /\ targetUrl.valid /\ RegexTest(m, UrlToMatch(targetUrl))
        /\ \A k \in 1..Len(allUserscripts) :
              urlMatches(allUserscripts[k].matchPatterns, targetUrl) =>
                  \E i \in 1..Len(scriptsToInject[allUserscripts[k].runAt]) :
                      scriptsToInject[allUserscripts[k].runAt][i] = allUserscripts[k]
        /\ \A phase \in validRunAt : \A i, j \in 1..Len(scriptsToInject[phase]) :
              i < j => CatalogPositions(phase)[i] < CatalogPositions(phase)[j]

\* C17 witness: a record with two matching patterns is in the plan together
\* with another record of its phase, and a catalog record that does not match
\* is left out.
C17_Witness ==
    /\ PlanBuilt
    /\ Paths(scriptsToInject["document-end"]) = <<"a", "b">>
    /\ targetUrl = HomeUrl

\* The files of the directory without a valid @match entry.
NoValidMatch(f) == ~HasValidPattern(parseMetadata(f.content).match)

InPlan(fname) ==
    \E phase \in validRunAt : \E i \in 1..Len(scriptsToInject[phase]) :
        scriptsToInject[phase][i].path = fname

\* C18: a script without a valid @match entry (no metadata block, no @match,
\* or only patterns that do not compile) is in no phase of the plan, whatever
\* the target URL.
C18_NoValidMatchNeverPlanned ==
    \A i \in 1..Len(userscriptsDir.files) :
        NoValidMatch(userscriptsDir.files[i]) => ~InPlan(userscriptsDir.files[i].file)

\* C18 witness: the plan was built for the home URL from a directory holding
\* a script whose only pattern does not compile and a script that is planned.
C18_Witness ==
    /\ PlanBuilt
    /\ targetUrl = HomeUrl
    /\ \E i \in 1..Len(userscriptsDir.files) :
          /\ userscriptsDir.files[i].file = "c"
          /\ NoValidMatch(userscriptsDir.files[i])
    /\ InPlan("a")

\* C19 (as claimed): the catalog loadUserscripts returned holds no record
\* without a valid match pattern.
C19_CatalogHoldsOnlyValidRecords ==
    \A k \in 1..Len(allUserscripts) : HasValidPattern(allUserscripts[k].matchPatterns)

\* A host is the domain itself or the domain after a non-empty chain of
\* labels: dot-separated, none of them empty.
SubdomainOrSelf(host, domain) ==
    \/ host = domain
    \/ /\ Len(host) > Len(domain) + 1
       /\ Drop(host, Len(host) - Len(domain)) = domain
       /\ host[Len(host) - Len(domain)] = "."
       /\ LET chain == SubSeq(host, 1, Len(host) - Len(domain) - 1)
          IN /\ chain[1] # "."
             /\ \A i \in 1..Len(chain) : chain[i] # "/"
             /\ \A i \in 1..(Len(chain) - 1) : ~(chain[i] = "." /\ chain[i + 1] = ".")

\* C20 (as claimed): a pattern whose host is "*." and a domain matches a URL
\* (of a scheme and path the pattern admits) exactly if the URL's host is the
\* domain itself or the domain after a non-empty chain of subdomain labels.
C20_StarDotMatchesSubdomainChains ==
    \A k \in 1..Len(allUserscripts) :
        \A i \in 1..Len(allUserscripts[k].matchPatterns) :
            LET pattern == allUserscripts[k].matchPatterns[i] IN
            (pattern = PatSub /\ targetUrl.scheme \in {Http, Https}) =>
                ( urlMatches(<<pattern>>, targetUrl)
                    <=> SubdomainOrSelf(targetUrl.host, <<"x", ".", "c">>) )

\* The catalog has been loaded (loadUserscripts returned).
CatalogLoaded == pc \in {"polyfill", "initScripts"}

\* The file of the directory a catalog record was loaded from.
FileOf(record) ==
    CHOOSE f \in {userscriptsDir.files[i] : i \in 1..Len(userscriptsDir.files)} :
        f.file = record.path

\* The text of a pattern in front of its first ":".
DeclaredScheme(pattern) == SubSeq(pattern, 1, IndexOf(pattern, ":") - 1)

\* C21: for a target URL whose scheme is not http or https no script is
\* planned, whatever its patterns (<all_urls> and scheme * included); a
\* pattern that declares a scheme other than *, http or https does not
\* compile; and <all_urls> matches every http and https URL.
C21_OnlyHttpAndHttps ==
    /\ targetUrl.scheme \notin {Http, Https} =>
          \A phase \in validRunAt : scriptsToInject[phase] = <<>>
    /\ \A k \in 1..Len(allUserscripts) :
          \A i \in 1..Len(allUserscripts[k].matchPatterns) :
             LET pattern == allUserscripts[k].matchPatterns[i] IN
             /\ (pattern # AllUrls /\ DeclaredScheme(pattern) \notin {<<"*">>, Http, Https})
                   => ~matchPatternToRegExp(pattern).valid
             /\ (PlanBuilt /\ pattern = AllUrls /\ targetUrl.scheme \in {Http, Https})
                   => \E j \in 1..Len(scriptsToInject[allUserscripts[k].runAt]) :
                         scriptsToInject[allUserscripts[k].runAt][j] = allUserscripts[k]

\* C21 witness: the plan was built for the ftp URL from a catalog holding the
\* <all_urls> script and a script with an ftp pattern.
C21_Witness ==
    /\ PlanBuilt
    /\ targetUrl.scheme = <<"f", "t", "p">>
    /\ Paths(allUserscripts) = <<"j", "c">>
    /\ allUserscripts[1].matchPatterns = <<AllUrls>>
    /\ allUserscripts[2].matchPatterns = <<PatFtp>>

\* The URL without its fragment.
WithoutFragment(url) == [url EXCEPT !.hash = <<>>]

\* C22: the plan built for a target URL is the plan of the URL without its
\* fragment, and each record's patterns match both URLs alike.
C22_FragmentNeverAffectsMatching ==
    PlanBuilt =>
        /\ scriptsToInject = BuildPlan(allUserscripts, WithoutFragment(targetUrl))
        /\ \A k \in 1..Len(allUserscripts) :
              urlMatches(allUserscripts[k].matchPatterns, targetUrl)
                 <=> urlMatches(allUserscripts[k].matchPatterns, WithoutFragment(targetUrl))

\* C22 witness: the plan for https://x.c/#f holds the script whose valid
\* pattern admits the root path only.
C22_Witness ==
    /\ PlanBuilt
    /\ targetUrl = [HomeUrl EXCEPT !.hash = <<"#", "f">>]
    /\ Paths(scriptsToInject["document-idle"]) = <<"k">>

\* C23: every pattern compiles to a matcher or to the invalid outcome, and a
\* record is planned as soon as one of its patterns compiles and accepts the
\* target URL, wherever invalid patterns stand in its list.
C23_InvalidPatternIsDropped ==
    \A k \in 1..Len(allUserscripts) :
        \A i \in 1..Len(allUserscripts[k].matchPatterns) :
           LET regex == matchPatternToRegExp(allUserscripts[k].matchPatterns[i]) IN
           /\ regex.valid \in BOOLEAN
           /\ ( /\ PlanBuilt
                /\ regex.valid
                /\ targetUrl.valid
                /\ targetUrl.scheme \in {Http, Https}
                /\ RegexTest(regex, UrlToMatch(targetUrl)) )
                 => InPlan(allUserscripts[k].path)

\* C23 witness: both the script whose first pattern does not compile and the
\* script whose first (a RegExp SyntaxError) and last patterns do not compile
\* are planned for the home URL.
C23_Witness ==
    /\ PlanBuilt
    /\ targetUrl = HomeUrl
    /\ Paths(allUserscripts) = <<"k", "l">>
    /\ ~matchPatternToRegExp(allUserscripts[1].matchPatterns[1]).valid
    /\ ~matchPatternToRegExp(allUserscripts[2].matchPatterns[1]).valid
    /\ ~matchPatternToRegExp(allUserscripts[2].matchPatterns[3]).valid
    /\ InPlan("k")
    /\ InPlan("l")

\* The phase a raw @run-at value stands for.
ExpectedPhase(raw) ==
    CASE raw \in {"document-end", "Document-End"} -> "document-end"
      [] raw \in {"document-idle", "DOCUMENT-IDLE"} -> "document-idle"
      [] OTHER -> "document-start"

\* The @run-at values of a file, as written.
RawRunAts(f) ==
    LET sel == SelectSeq(f.content.lines, LAMBDA l : l[1] = "run-at")
    IN [i \in 1..Len(sel) |-> sel[i][2]]

RawNames(f) ==
    LET sel == SelectSeq(f.content.lines, LAMBDA l : l[1] = "name")
    IN [i \in 1..Len(sel) |-> sel[i][2]]

\* C28 (as claimed): the name of a catalog record is the first @name value of
\* its file, and the filename when the file has no @name or an empty one.
C28_NameFallsBackToFilename ==
    \A k \in 1..Len(allUserscripts) :
        LET names == RawNames(FileOf(allUserscripts[k]))
        IN allUserscripts[k].name =
              IF names # <<>> /\ names[1] # "" THEN names[1] ELSE allUserscripts[k].path

\* C29 (as claimed): whatever error reading the directory raises, the run
\* goes on with an empty catalog; and an unreadable file is skipped while the
\* readable scripts of the directory are loaded.
C29_CatalogErrorsNeverFatal ==
    pc # "prepare" =>
        /\ CatalogLoaded
        /\ userscriptsDir.err # "none" => allUserscripts = <<>>
        /\ \A i \in 1..Len(userscriptsDir.files) :
              LET f == userscriptsDir.files[i] IN
              (f.userjs /\ f.readable /\ f.content.block
                 /\ \E j \in 1..Len(f.content.lines) : f.content.lines[j][1] = "match")
                 => \E k \in 1..Len(allUserscripts) : allUserscripts[k].path = f.file

\* ------------------------------------------------------------------------
\* Properties of the response handling of GM_xmlhttpRequest
\* (C24 under SpecResponse, C25, C26 and C30 under SpecXhr)
\* ------------------------------------------------------------------------

\* The set of the elements of a sequence.
Range(seq) == {seq[i] : i \in 1..Len(seq)}

\* The events the host decided to send for a call: handed to page.evaluate
\* or dropped because the page was closed.
HostEvents(n) == Range(sent[n]) \cup Range(dropped[n])

\* C24 (amended): the effective response type of a response is the requested
\* responseType when that is json, text, arraybuffer or blob; when
\* responseType is absent or empty it is json if the effective content type
\* (details.overrideMimeType when given, else the content-type header of the
\* response) contains "json", else text; for every other requested value it
\* is text.
C24_EffectiveResponseType ==
    \A n \in 1..Len(xhrCalls) :
        bridge[n].fetch = "resolved" =>
            LET requested == xhrCalls[n].responseType
                override  == xhrCalls[n].overrideMimeType
                header    == bridge[n].contentTypeHeader
                effective == bridge[n].effectiveResponseType
                ctype     == IF override # "undefined" THEN override
                             ELSE IF header = "null" THEN "" ELSE header
            IN /\ requested \in {"json", "text", "arraybuffer", "blob"}
                     => effective = requested
               /\ requested \in {"undefined", ""}
                     => effective = IF ctype = "application/ld+json" THEN "json"
                                    ELSE "text"
               /\ requested = "document" => effective = "text"

\* C24 witness: a request for the type "document" was answered with a JSON
\* content type, was completed (onload) and its effective type is text; the
\* same for a request without type whose overrideMimeType hides the JSON
\* content type of the response.
C24_Witness ==
    \E m, n \in 1..Len(xhrCalls) :
        /\ xhrCalls[m].responseType = "document"
        /\ bridge[m].contentTypeHeader = "application/ld+json"
        /\ bridge[m].effectiveResponseType = "text"
        /\ delivered[m] = <<[event |-> "onload", from |-> m]>>
        /\ xhrCalls[n].responseType = "undefined"
        /\ xhrCalls[n].overrideMimeType = "text/plain"
        /\ bridge[n].contentTypeHeader = "application/ld+json"
        /\ bridge[n].effectiveResponseType = "text"
        /\ delivered[n] = <<[event |-> "onload", from |-> n]>>

\* C24 (as claimed): the effective response type is the requested one when
\* that is json, text, arraybuffer or blob, else json when the content type
\* of the response contains "json", else text.
C24_AsClaimed ==
    \A n \in 1..Len(xhrCalls) :
        bridge[n].fetch = "resolved" =>
            bridge[n].effectiveResponseType =
                IF xhrCalls[n].responseType \in {"json", "text", "arraybuffer", "blob"}
                THEN xhrCalls[n].responseType
                ELSE IF bridge[n].contentTypeHeader = "application/ld+json"
                     THEN "json" ELSE "text"

\* C25: when the fetch of a request resolved and reading the body failed, the
\* only event the host decides for the request is onerror: no onload is sent
\* or delivered for its identifier, and its callbacks see nothing but onerror.
C25_BodyReadFailureIsErrored ==
    \A n \in 1..Len(xhrCalls) :
        bridge[n].body = "failed" =>
            /\ bridge[n].fetch = "resolved"
            /\ HostEvents(n) = {"onerror"}
            /\ Len(sent[n]) + Len(dropped[n]) <= 2
            /\ Len(sent[n]) <= 1
            /\ \A i \in 1..Len(channel) :
                  channel[i].id = xhrCalls[n].id => channel[i].event = "onerror"
            /\ \A i \in 1..Len(delivered[n]) : delivered[n][i].event = "onerror"
            /\ \A i \in 1..Len(invoked[n]) : invoked[n][i] = "onerror"

\* C25 witness: a request with a timeout got a response before the timer
\* fired, the body could not be read, and the page ran its onerror callback.
C25_Witness ==
    \E n \in 1..Len(xhrCalls) :
        /\ bridge[n].body = "failed"
        /\ bridge[n].timer = "cleared"
        /\ delivered[n] = <<[event |-> "onerror", from |-> n]>>
        /\ invoked[n] = <<"onerror">>
        /\ xhrCalls[n].id \notin DOMAIN requestMap

C30_ConcurrentCallsIndependent ==
    [][ \A b \in 1..Len(xhrCalls) :
          /\ ( \/ invoked'[b] # invoked[b]
               \/ delivered'[b] # delivered[b]
               \/ xhrCalls[b].id \in (DOMAIN requestMap) \ (DOMAIN requestMap') )
                => /\ channel # <<>>
                   /\ Head(channel).from = b
                   /\ Head(channel).id = xhrCalls[b].id
                   /\ channel' = Tail(channel)
          /\ (bridge'[b] # bridge[b] \/ sent'[b] # sent[b])
                => \A a \in 1..Len(xhrCalls) :
                      a # b => bridge'[a] = bridge[a] /\ sent'[a] = sent[a]
      ]_vars

\* C30 witness: of two requests in flight together the later one has got its
\* terminal event and its entry is retired, while the earlier one is still
\* reading its response and its entry is still pending.
C30_Witness ==
    /\ Len(xhrCalls) = 2
    /\ delivered[2] = <<[event |-> "onload", from |-> 2]>>
    /\ xhrCalls[2].id \notin DOMAIN requestMap
    /\ bridge[1].pc = "body"
    /\ delivered[1] = <<>>
    /\ xhrCalls[1].id \in DOMAIN requestMap
    /\ requestMap[xhrCalls[1].id] = 1

\* ------------------------------------------------------------------------
\* Properties of the injection across page loads (checked under SpecReload)
\* ------------------------------------------------------------------------

\* The userscripts among the registered page-initialization code.
RegisteredUserscripts == SelectSeq(initScripts, LAMBDA what : what # "polyfill")

\* C31: the polyfill, when registered, is the first page-initialization code;
\* in every document every userscript of any phase is delivered after the
\* polyfill of that document; and with or without the polyfill the
\* document-start scripts of the plan are registered, in order, once the
\* run reaches the navigation with the page open.
C31_PolyfillBeforeUserscripts ==
    /\ \A i \in 1..Len(initScripts) : initScripts[i] = "polyfill" => i = 1
    /\ \A i \in 1..Len(evalLog) :
          ("polyfill" \in Range(initScripts) /\ evalLog[i].phase # "polyfill") =>
              \E j \in 1..(i - 1) :
                 /\ evalLog[j].phase = "polyfill"
                 /\ evalLog[j].load = evalLog[i].load
    /\ (pc \in {"goto", "navigating", "wait"} /\ ~pageClosed) =>
          RegisteredUserscripts = Paths(scriptsToInject["document-start"])

\* C31 witness: the page has loaded a second document; in it the polyfill
\* ran before the document-start script and before the document-end script.
C31_Witness ==
    /\ docLoads = 2
    /\ initScripts = <<"polyfill", "a">>
    /\ \E i, j, k \in 1..Len(evalLog) :
          /\ i < j /\ j < k
          /\ evalLog[i].phase = "polyfill" /\ evalLog[i].load = 2
          /\ evalLog[j].phase = "document-start" /\ evalLog[j].load = 2
          /\ evalLog[k].phase = "document-end" /\ evalLog[k].load = 2

\* C34 (as claimed): within a run no document-end or document-idle script
\* of the plan is handed to the page for evaluation more than once.
C34_EvaluatedAtMostOnce ==
    \A i, j \in 1..Len(evalLog) :
        (i < j /\ evalLog[i].phase \in {"document-end", "document-idle"})
            => evalLog[i].script # evalLog[j].script

\* ------------------------------------------------------------------------
\* Properties of the host part of match patterns (checked under SpecPlan)
\* ------------------------------------------------------------------------

\* The host text of a pattern: what stands between "://" and the next "/".
HostText(pattern) ==
    LET rest == Drop(pattern, IndexOf(pattern, ":") + 2)
    IN SubSeq(rest, 1, IndexOf(rest, "/") - 1)

\* The host text has a "*" that is neither the whole host nor the "*" of a
\* leading "*." prefix.
StarElsewhere(host) ==
    /\ host # <<"*">>
    /\ \E i \in 1..Len(host) :
          /\ host[i] = "*"
          /\ ~(i = 1 /\ Len(host) >= 2 /\ host[2] = ".")

\* C32 (as claimed): a pattern whose whole host is "*" compiles and its
\* script is planned for every http and https URL its path admits, and a
\* pattern with a "*" elsewhere in the host, other than the leading "*."
\* prefix, does not compile.
C32_HostWildcards ==
    \A k \in 1..Len(allUserscripts) :
        \A i \in 1..Len(allUserscripts[k].matchPatterns) :
            LET pattern == allUserscripts[k].matchPatterns[i] IN
            pattern # AllUrls =>
                /\ HostText(pattern) = <<"*">> =>
                      /\ matchPatternToRegExp(pattern).valid
                      /\ (PlanBuilt /\ targetUrl.scheme \in {Http, Https})
                            => InPlan(allUserscripts[k].path)
                /\ StarElsewhere(HostText(pattern))
                      => ~matchPatternToRegExp(pattern).valid

\* ------------------------------------------------------------------------
\* Properties of failing and invalid requests (checked under SpecXhr)
\* ------------------------------------------------------------------------

\* C33: when the fetch of a request rejects (no cancellation), the bridge
\* invocation ends, the one event it decides is onerror, and with the page
\* open the caller gets exactly that event, once.
C33_NetworkFailureIsOneOnerror ==
    \A n \in 1..Len(xhrCalls) :
        bridge[n].fetch = "rejected" =>
            /\ bridge[n].pc = "done"
            /\ bridge[n].timer \in {"none", "cleared"}
            /\ HostEvents(n) = {"onerror"}
            /\ Len(sent[n]) <= 1 /\ Len(dropped[n]) <= 1
            /\ delivered[n] \in {<<>>, <<[event |-> "onerror", from |-> n]>>}
            /\ (~pageClosed /\ Quiet(n)) =>
                  /\ delivered[n] = <<[event |-> "onerror", from |-> n]>>
                  /\ invoked[n] = IF "onerror" \in xhrCalls[n].cbs
                                  THEN <<"onerror">> ELSE <<>>
                  /\ xhrCalls[n].id \notin DOMAIN requestMap

\* C33 witness: the fetch of a request with an armed timer was rejected, the
\* timer was cleared, and the page ran the onerror callback of the request.
C33_Witness ==
    \E n \in 1..Len(xhrCalls) :
        /\ bridge[n].fetch = "rejected"
        /\ bridge[n].timer = "cleared"
        /\ sent[n] = <<"onerror">>
        /\ invoked[n] = <<"onerror">>
        /\ ~pageClosed

\* C36 (as claimed): a call without a valid url never starts a bridge
\* invocation, gets an identifier no earlier call had, has run its onerror
\* callback (when given) exactly once when the call returns, has no entry
\* in the pending table and is never handed an event.
C36_InvalidUrlNeverPending ==
    \A n \in 1..Len(xhrCalls) :
        ~xhrCalls[n].urlOk =>
            /\ bridge[n] = NoBridge
            /\ sent[n] = <<>> /\ dropped[n] = <<>>
            /\ \A m \in 1..(n - 1) : xhrCalls[m].id < xhrCalls[n].id
            /\ invoked[n] = IF "onerror" \in xhrCalls[n].cbs THEN <<"onerror">> ELSE <<>>
            /\ delivered[n] = <<>>
            /\ xhrCalls[n].id \notin DOMAIN requestMap

\* ------------------------------------------------------------------------
\* Properties of the request headers (checked under SpecAuth)
\* ------------------------------------------------------------------------

\* The Authorization header of the credentials of the inputs:
\* base64("u:p") = "dTpw", base64("u:pw") = "dTpwdw==".
ExpectedAuthorization(user, password) ==
    CASE user = <<"u">> /\ password = <<"p">> ->
            <<"B", "a", "s", "i", "c", " ", "d", "T", "p", "w">>
      [] user = <<"u">> /\ password = <<"p", "w">> ->
            <<"B", "a", "s", "i", "c", " ", "d", "T", "p", "w", "d", "w", "=", "=">>

\* C35: the headers of the fetch the bridge issues are the headers of
\* details; when details carries a user and a password (both non-empty) the
\* header Authorization is set to "Basic " and the base64 text of
\* user:password, replacing a value the caller gave for it; no other header
\* is added, removed or changed, and without both credentials the headers
\* are those of details.
C35_OnlyAuthorizationIsAdded ==
    \A n \in 1..Len(xhrCalls) :
        bridge[n].pc # "none" =>
            LET given == xhrCalls[n].headers
                used  == bridge[n].requestHeaders
                auth  == xhrCalls[n].user # <<>> /\ xhrCalls[n].password # <<>>
            IN /\ \A k \in (DOMAIN given) \ {"Authorization"} :
                     k \in DOMAIN used /\ used[k] = given[k]
               /\ DOMAIN used \subseteq (DOMAIN given) \cup {"Authorization"}
               /\ auth => /\ "Authorization" \in DOMAIN used
                          /\ used["Authorization"] =
                                ExpectedAuthorization(xhrCalls[n].user, xhrCalls[n].password)
               /\ ~auth => used = given

\* C35 witness: a request with a header of its own, user "u" and password
\* "pw" was issued with that header and Authorization: Basic dTpwdw==, and a
\* request that already carried an Authorization header had it replaced.
C35_Witness ==
    \E m, n \in 1..Len(xhrCalls) :
        /\ DOMAIN xhrCalls[m].headers = {"X-A"}
        /\ xhrCalls[m].password = <<"p", "w">>
        /\ DOMAIN bridge[m].requestHeaders = {"X-A", "Authorization"}
        /\ bridge[m].requestHeaders["X-A"] = "1"
        /\ DOMAIN xhrCalls[n].headers = {"Authorization"}
        /\ xhrCalls[n].user = <<"u">> /\ xhrCalls[n].password = <<"p">>
        /\ bridge[n].requestHeaders["Authorization"] # xhrCalls[n].headers["Authorization"]
        /\ bridge[n].fetch = "resolved"

\* ------------------------------------------------------------------------
\* Properties of the timeout timer (checked under SpecXhr)
\* ------------------------------------------------------------------------

\* C37: once the fetch of a request has resolved or has been rejected its
\* timer is not armed, and no ontimeout is sent, dropped, in flight or
\* delivered for the request, during the body read and after it.
C37_SettledFetchDisarmsTimer ==
    \A n \in 1..Len(xhrCalls) :
        bridge[n].fetch \in {"resolved", "rejected"} =>
            /\ bridge[n].timer \in {"none", "cleared"}
            /\ "ontimeout" \notin HostEvents(n)
            /\ \A i \in 1..Len(channel) :
                  channel[i].from = n => channel[i].event # "ontimeout"
            /\ \A i \in 1..Len(delivered[n]) : delivered[n][i].event # "ontimeout"
            /\ "ontimeout" \notin Range(invoked[n])

\* C37 witness: the fetch of a request with a timeout resolved, the body
\* read is still going on and the timer is cleared; another request with a
\* timeout has had its onload delivered.
C37_Witness ==
    \E m, n \in 1..Len(xhrCalls) :
        /\ xhrCalls[m].timeout /\ xhrCalls[n].timeout
        /\ bridge[m].pc = "body"
        /\ bridge[m].timer = "cleared"
        /\ bridge[n].timer = "cleared"
        /\ delivered[n] = <<[event |-> "onload", from |-> n]>>

\* ------------------------------------------------------------------------
\* Frame of the non-mutating storage calls (checked under SpecStore)
\* ------------------------------------------------------------------------

\* The step is a storage bridge call that reads: a get, a list, or a delete
\* of a key that the store does not hold.
NonMutatingCall ==
    /\ Len(storeCalls') = Len(storeCalls) + 1
    /\ LET c == storeCalls'[Len(storeCalls')]
       IN \/ c.op \in {"get", "list"}
          \/ c.op = "delete" /\ c.key \notin DOMAIN gmStorage

\* C39: a get, a list, and a delete of a key that is not in the store leave
\* gmStorage and the storage file as they are and issue no write; the calls
\* made before are not touched either.
C39_ReadsLeaveStoreUntouched ==
    [][NonMutatingCall =>
          /\ gmStorage' = gmStorage
          /\ file' = file
          /\ saves' = saves
          /\ SubSeq(storeCalls', 1, Len(storeCalls)) = storeCalls
          /\ ~storeCalls'[Len(storeCalls')].mutated
          /\ storeCalls'[Len(storeCalls')].state = "done"]_vars

\* C39 witness: after a set whose write reached the file, a delete of a key
\* the store does not hold and then a get or a list were made; the store still
\* holds the pair, the file equals it and the one write is the only one.
C39_Witness ==
    /\ Len(storeCalls) = 3
    /\ storeCalls[1].op = "set"
    /\ storeCalls[2].op = "delete" /\ ~storeCalls[2].mutated
    /\ storeCalls[2].result = "none"
    /\ storeCalls[3].op \in {"get", "list"}
    /\ gmStorage # <<>>
    /\ Len(saves) = 1 /\ saves[1].state = "written"
    /\ file = JsonFile(gmStorage)

\* ------------------------------------------------------------------------
\* Termination of requests (checked under SpecXhrLive)
\* ------------------------------------------------------------------------

\* Call n was issued with a valid url.
Issued(n) == n <= Len(xhrCalls) /\ xhrCalls[n].urlOk

\* Call n was handed a terminal event and its identifier is out of the
\* page-side table.
Retired(n) ==
    /\ n <= Len(xhrCalls)
    /\ delivered[n] # <<>>
    /\ xhrCalls[n].id \notin DOMAIN requestMap

\* C38 (as claimed): with the page open and every fetch settling or
\* overtaken by its timer, every request issued with a valid url is
\* eventually handed a terminal event and eventually leaves requestMap.
C38_EveryRequestRetires ==
    \A n \in CallNos : Issued(n) ~> Retired(n)

\* Every body read that starts comes to an end.
BodyReadsEnd == \A n \in CallNos : []<>(bridge[n].pc # "body")

\* The same with every body read coming to an end as well.
EveryRequestRetiresWhenBodyReadsEnd == BodyReadsEnd => C38_EveryRequestRetires

====
